---- MODULE Spec2Model ----
(***************************************************************************)
(* Model of the workflow execution engine (WorkflowEngine, HITLFramework)  *)
(* at the granularity of JavaScript's run-to-completion jobs: every action *)
(* is one synchronous run of code, from a call or a resumed await up to    *)
(* the next await.  Continuations of awaits wait in the FIFO microtask     *)
(* queue; calls from outside arrive between jobs.                          *)
(***************************************************************************)
EXTENDS Integers, Sequences, FiniteSets, TLC

VARIABLES
    workflows,           \* WorkflowEngine.workflows: definition id -> definition
    states,              \* WorkflowEngine.states: instance id -> WorkflowState
    pendingHumanInputs,  \* WorkflowEngine.pendingHumanInputs: instance id -> HumanInput
    heap,                \* the stepData objects, by reference
    events,              \* every event handed to emit(), in emission order
    microtasks,          \* continuations of awaits, in FIFO order
    returned,            \* per instance: how its startWorkflow call settled
    statusTrace,         \* per instance: every value assigned to state.status, in order
    startedAs,           \* per instance: the definition registered when it was started
    lastCall,            \* the error thrown by the latest call of the public API, or "ok"
    calls,               \* number of calls of the public API that took effect
    hitl,                \* the HITLInterface given to HITLFramework's constructor
    redefined,           \* the instances whose definition was replaced after their start
    looked,              \* the value returned by the lookup made in the latest step
    sdk,                 \* the provider types whose SDK package can be imported now
    factory,             \* LLMProviderFactory's static fields
    manager,             \* the LLMManager: its fields, and the configuration it was given
    llmCall,             \* the call of LLMManager or the registry made in the latest step
    registryLog,         \* the probes run and the registerProvider calls made so far
    gemini,              \* a chat call of the Gemini adapter: its messages, and what it sent
    inits,               \* the registry operations in flight, each at one of its awaits
    console,             \* the ConsoleHITL gateway: readline, prompts, questions, events
    listener             \* the event types on which a listener added with on() throws

adapterVars == <<gemini, inits, console, listener>>

llmVars == <<sdk, factory, manager, llmCall, registryLog>>

engineVars == <<workflows, states, pendingHumanInputs, heap, events, microtasks,
                returned, statusTrace, startedAs, lastCall, calls, hitl, redefined, looked>>

vars == <<engineVars, llmVars, adapterVars>>

-----------------------------------------------------------------------------
(* Bounds of the model *)

\* Number of calls of registerWorkflow, startWorkflow and provideHumanInput
\* that take effect (rejected calls are not counted).
MaxCalls == 4

\* The same number in the specification that adds the lookups (SpecProbes)
MaxProbedCalls == 3

\* Number of registerWorkflow and startWorkflow calls in the specification
\* with a gateway and fair scheduling (SpecLive)
MaxLiveCalls == 3

\* Length of the message lists given to the Gemini adapter's chat (SpecGemini)
MaxMessages == 3

\* Number of registry operations started in the specification that follows
\* each of them from await to await (SpecLazyInit)
MaxOperations == 3

\* Number of requestInput calls made on the console gateway (SpecConsole)
MaxRequests == 3

-----------------------------------------------------------------------------
(* Values *)

WorkflowIds == {"w1"}
StepIds == {"a", "b", "c"}
Answers == {"yes"}
None == "none"
\* References to stepData objects: the caller's initialData object, the
\* object literal {} created for instance i, and no object (undefined).
SeedRef == [obj |-> "initialData", of |-> 0]
OwnRef(i) == [obj |-> "{}", of |-> i]
Undefined == [obj |-> "undefined", of |-> 0]

\* A definition id no caller registers
Unregistered == "w2"

\* No lookup made
NoLookup == [op |-> None, id |-> 0, value |-> Undefined]

\* WorkflowStep: id, type, config (present or missing), dependencies.
Step(id, type, deps) == [id |-> id, type |-> type, config |-> TRUE, dependencies |-> deps]
StepNoConfig(id, type, deps) == [id |-> id, type |-> type, config |-> FALSE, dependencies |-> deps]

\* The definitions callers register (steps in declared order).
Definitions ==
    { << Step("a", "system", {}), Step("b", "human", {"a"}), Step("c", "system", {"b"}) >>,
      << Step("a", "human", {}), Step("c", "agent", {"a"}), Step("b", "human", {"c"}) >>,
      << Step("a", "system", {}), Step("b", "bogus", {"a"}), Step("c", "system", {}) >>,
      << Step("a", "agent", {}), StepNoConfig("b", "human", {"a"}), Step("c", "system", {}) >>,
      << Step("a", "system", {"b"}), Step("b", "system", {"a"}) >> }

NoError == [msg |-> None, tag |-> None]
NoStep == [id |-> None, type |-> None, config |-> FALSE, dependencies |-> {}]
NoInput == [stepId |-> None]
NoResult == [stepId |-> None, success |-> FALSE, data |-> {}, error |-> NoError,
             requiresHuman |-> NoInput, threw |-> FALSE]

\* The stepData object a caller passes as initialData.
SeedData == [k \in StepIds \cup {"requestData"} |->
                IF k = "requestData" THEN {<<"value", "sample">>}
                ELSE IF k = "b" THEN {<<"note", "prior">>} ELSE {}]
EmptyData == [k \in StepIds \cup {"requestData"} |-> {}]

-----------------------------------------------------------------------------
(* Map operations (JavaScript Map: set, delete) *)

MapSet(m, k, v) == [x \in DOMAIN m \cup {k} |-> IF x = k THEN v ELSE m[x]]
MapDelete(m, k) == [x \in DOMAIN m \ {k} |-> m[x]]

\* Array.prototype.includes on completedSteps
Includes(seq, x) == \E n \in 1..Len(seq) : seq[n] = x

-----------------------------------------------------------------------------
(* The engine as a value: the operators below are the synchronous runs of  *)
(* the engine's methods, each taking the engine before and giving the      *)
(* engine after, so that a listener can re-enter the engine inside emit(). *)

Engine == [workflows |-> workflows, states |-> states,
           pendingHumanInputs |-> pendingHumanInputs, heap |-> heap,
           events |-> events, microtasks |-> microtasks,
           statusTrace |-> statusTrace]

\* state.status = status
SetStatus(M, instanceId, status) ==
    [M EXCEPT !.states[instanceId].status = status,
              !.statusTrace[instanceId] = Append(@, status)]

\* emit() calls the listeners synchronously: an exception thrown by one of
\* them leaves emit(), and emitEvent, as an exception at the call site.
ListenerThrows(type) == type \in listener

\* The error the catch block reports for a listener's exception
ListenerError == [msg |-> "ListenerError", tag |-> None]

emitEventTwice(M, instanceId, type, stepId, step, error) ==
    LET event == [workflowId |-> instanceId, type |-> type,
                  stepId |-> stepId, step |-> step, error |-> error]
    IN  [M EXCEPT !.events[instanceId] = @ \o <<event, event>>]

\* emitEvent: both emit() calls hand the same event to the listeners.  The
\* events are kept per instance (event.workflowId), in emission order; step
\* is the data.step payload of step_started.
emitEvent(M, instanceId, type, stepId, step, error) ==
    [M EXCEPT !.events[instanceId] =
                  Append(@, [workflowId |-> instanceId, type |-> type,
                             stepId |-> stepId, step |-> step, error |-> error])]

\* findNextStep: the first step, in declared order, that is not completed
\* and whose dependencies are all completed; NoStep when there is none.
EligibleIgnoringDependencies(step, state) ==
    ~Includes(state.completedSteps, step.id)

EligibleIgnoringCompleted(step, state) ==
    \A dep \in step.dependencies : Includes(state.completedSteps, dep)

Eligible(step, state) ==
    /\ ~Includes(state.completedSteps, step.id)
    /\ \A dep \in step.dependencies : Includes(state.completedSteps, dep)

findNextStepDeclaredOrder(workflow, state) ==
    LET open == {n \in 1..Len(workflow) : ~Includes(state.completedSteps, workflow[n].id)}
        first == CHOOSE n \in open : \A m \in open : n <= m
    IN  IF open = {} THEN NoStep
        ELSE IF Eligible(workflow[first], state) THEN workflow[first] ELSE NoStep

findNextStepReversed(workflow, state) ==
    LET found == {n \in 1..Len(workflow) : Eligible(workflow[n], state)}
    IN  IF found = {} THEN NoStep
        ELSE workflow[CHOOSE n \in found : \A m \in found : n >= m]

findNextStep(workflow, state) ==
    LET found == {n \in 1..Len(workflow) : Eligible(workflow[n], state)}
    IN  IF found = {} THEN NoStep
        ELSE workflow[CHOOSE n \in found : \A m \in found : n <= m]

\* executeStep: the default behaviour by type tag.  A human step reads
\* step.config.prompt, which throws a TypeError when config is missing.
executeStepSystemAsksHuman(step) ==
    CASE step.type \in {"human", "system"} ->
            IF step.config
            THEN [NoResult EXCEPT !.stepId = step.id, !.success = TRUE,
                                  !.requiresHuman = [stepId |-> step.id]]
            ELSE [NoResult EXCEPT !.stepId = step.id, !.threw = TRUE,
                                  !.error = [msg |-> "TypeError", tag |-> None]]
      [] step.type = "agent" ->
            [NoResult EXCEPT !.stepId = step.id, !.success = TRUE,
                             !.data = {<<"message", "Agent step completed">>}]
      [] OTHER ->
            [NoResult EXCEPT !.stepId = step.id, !.success = FALSE,
                             !.error = [msg |-> "Unknown step type", tag |-> step.type]]

executeStepUnknownSucceeds(step) ==
    CASE step.type = "human" ->
            IF step.config
            THEN [NoResult EXCEPT !.stepId = step.id, !.success = TRUE,
                                  !.requiresHuman = [stepId |-> step.id]]
            ELSE [NoResult EXCEPT !.stepId = step.id, !.threw = TRUE,
                                  !.error = [msg |-> "TypeError", tag |-> None]]
      [] step.type = "system" ->
            [NoResult EXCEPT !.stepId = step.id, !.success = TRUE,
                             !.data = {<<"message", "System step completed">>}]
      [] OTHER ->
            [NoResult EXCEPT !.stepId = step.id, !.success = TRUE,
                             !.data = {<<"message", "Agent step completed">>}]

executeStepAgentAsksHuman(step) ==
    CASE step.type \in {"human", "agent"} ->
            IF step.config
            THEN [NoResult EXCEPT !.stepId = step.id, !.success = TRUE,
                                  !.requiresHuman = [stepId |-> step.id]]
            ELSE [NoResult EXCEPT !.stepId = step.id, !.threw = TRUE,
                                  !.error = [msg |-> "TypeError", tag |-> None]]
      [] step.type = "system" ->
            [NoResult EXCEPT !.stepId = step.id, !.success = TRUE,
                             !.data = {<<"message", "System step completed">>}]
      [] OTHER ->
            [NoResult EXCEPT !.stepId = step.id, !.success = FALSE,
                             !.error = [msg |-> "Unknown step type", tag |-> step.type]]

executeStep(step) ==
    CASE step.type = "human" ->
            IF step.config
            THEN [NoResult EXCEPT !.stepId = step.id, !.success = TRUE,
                                  !.requiresHuman = [stepId |-> step.id]]
            ELSE [NoResult EXCEPT !.stepId = step.id, !.threw = TRUE,
                                  !.error = [msg |-> "TypeError", tag |-> None]]
      [] step.type = "system" ->
            [NoResult EXCEPT !.stepId = step.id, !.success = TRUE,
                             !.data = {<<"message", "System step completed">>}]
      [] step.type = "agent" ->
            [NoResult EXCEPT !.stepId = step.id, !.success = TRUE,
                             !.data = {<<"message", "Agent step completed">>}]
      [] OTHER ->
            [NoResult EXCEPT !.stepId = step.id, !.success = FALSE,
                             !.error = [msg |-> "Unknown step type", tag |-> step.type]]

\* A job waiting in the microtask queue.
\*   kind "exec":   executeNextStep resumes after `await this.executeStep`
\*   kind "resume": the function awaiting a settled executeNextStep resumes;
\*                  stack holds the step ids of the executeNextStep frames
\*                  still awaiting at `await this.executeNextStep`, innermost
\*                  first, root is the public method below them, and threw
\*                  says that the awaited promise was rejected.
Job(kind, instanceId, step, result, stack, root, threw) ==
    [kind |-> kind, inst |-> instanceId, step |-> step, result |-> result,
     stack |-> stack, root |-> root, threw |-> threw]

Enqueue(M, job) == [M EXCEPT !.microtasks = Append(@, job)]

\* An executeNextStep activation returns (or throws): its promise settles
\* and the function awaiting it is scheduled.
Settle(M, instanceId, stack, root, threw) ==
    Enqueue(M, Job("resume", instanceId, NoStep, NoResult, stack, root, threw))

\* executeNextStep, from its entry to `await this.executeStep(...)`.
executeNextStep(M, instanceId, stack, root) ==
    IF instanceId \notin DOMAIN M.states
       \/ M.states[instanceId].workflowId \notin DOMAIN M.workflows
    THEN Settle(M, instanceId, stack, root, FALSE)
    ELSE
    LET state == M.states[instanceId]
        workflow == M.workflows[state.workflowId]
        nextStep == findNextStep(workflow, state)
        started == emitEvent(SetStatus([M EXCEPT !.states[instanceId].currentStepId =
                                                     nextStep.id],
                                       instanceId, "running"),
                             instanceId, "step_started", nextStep.id, nextStep, NoError)
    IN  IF nextStep = NoStep
        THEN Settle(emitEvent(SetStatus(M, instanceId, "completed"),
                              instanceId, "workflow_completed", None, NoStep, NoError),
                    instanceId, stack, root, ListenerThrows("workflow_completed"))
        ELSE IF ListenerThrows("step_started")
        THEN Settle(started, instanceId, stack, root, TRUE)
        ELSE Enqueue(started,
                     Job("exec", instanceId, nextStep, executeStep(nextStep), stack, root,
                         FALSE))

\* provideHumanInput: its guard.
CanProvide(M, instanceId) ==
    /\ instanceId \in DOMAIN M.states
    /\ instanceId \in DOMAIN M.pendingHumanInputs
    /\ M.states[instanceId].status = "paused"

\* provideHumanInput past its guard, up to `await this.executeNextStep`.
provideHumanInputLeavesPaused(M, instanceId, input) ==
    LET state == M.states[instanceId]
        pendingInput == M.pendingHumanInputs[instanceId]
        merged == {kv \in M.heap[state.stepData][pendingInput.stepId] : kv[1] # "humanInput"}
                      \cup {<<"humanInput", input>>}
        M1 == [M EXCEPT !.heap[state.stepData][pendingInput.stepId] = merged,
                        !.states[instanceId].completedSteps = Append(@, pendingInput.stepId),
                        !.pendingHumanInputs = MapDelete(@, instanceId)]
    IN  executeNextStep(emitEvent(M1, instanceId, "step_completed", pendingInput.stepId,
                                  NoStep, NoError),
                        instanceId, <<>>, "provideHumanInput")

provideHumanInputKeepsPending(M, instanceId, input) ==
    LET state == M.states[instanceId]
        pendingInput == M.pendingHumanInputs[instanceId]
        merged == {kv \in M.heap[state.stepData][pendingInput.stepId] : kv[1] # "humanInput"}
                      \cup {<<"humanInput", input>>}
        M1 == [M EXCEPT !.heap[state.stepData][pendingInput.stepId] = merged,
                        !.states[instanceId].completedSteps = Append(@, pendingInput.stepId)]
    IN  executeNextStep(emitEvent(SetStatus(M1, instanceId, "running"),
                                  instanceId, "step_completed", pendingInput.stepId,
                                  NoStep, NoError),
                        instanceId, <<>>, "provideHumanInput")

provideHumanInputReplacesData(M, instanceId, input) ==
    LET state == M.states[instanceId]
        pendingInput == M.pendingHumanInputs[instanceId]
        M1 == [M EXCEPT !.heap[state.stepData][pendingInput.stepId] =
                            {<<"humanInput", input>>},
                        !.states[instanceId].completedSteps = Append(@, pendingInput.stepId),
                        !.pendingHumanInputs = MapDelete(@, instanceId)]
    IN  executeNextStep(emitEvent(SetStatus(M1, instanceId, "running"),
                                  instanceId, "step_completed", pendingInput.stepId,
                                  NoStep, NoError),
                        instanceId, <<>>, "provideHumanInput")

provideHumanInputStops(M, instanceId, input) ==
    LET state == M.states[instanceId]
        pendingInput == M.pendingHumanInputs[instanceId]
        merged == {kv \in M.heap[state.stepData][pendingInput.stepId] : kv[1] # "humanInput"}
                      \cup {<<"humanInput", input>>}
        M1 == [M EXCEPT !.heap[state.stepData][pendingInput.stepId] = merged,
                        !.states[instanceId].completedSteps = Append(@, pendingInput.stepId),
                        !.pendingHumanInputs = MapDelete(@, instanceId)]
    IN  Settle(emitEvent(SetStatus(M1, instanceId, "running"),
                         instanceId, "step_completed", pendingInput.stepId,
                         NoStep, NoError),
               instanceId, <<>>, "provideHumanInput", FALSE)

provideHumanInput(M, instanceId, input) ==
    LET state == M.states[instanceId]
        pendingInput == M.pendingHumanInputs[instanceId]
        merged == {kv \in M.heap[state.stepData][pendingInput.stepId] : kv[1] # "humanInput"}
                      \cup {<<"humanInput", input>>}
        M1 == [M EXCEPT !.heap[state.stepData][pendingInput.stepId] = merged,
                        !.states[instanceId].completedSteps = Append(@, pendingInput.stepId),
                        !.pendingHumanInputs = MapDelete(@, instanceId)]
        emitted == emitEvent(SetStatus(M1, instanceId, "running"),
                             instanceId, "step_completed", pendingInput.stepId,
                             NoStep, NoError)
    IN  IF ListenerThrows("step_completed")
        THEN Settle(emitted, instanceId, <<>>, "provideHumanInput", TRUE)
        ELSE executeNextStep(emitted, instanceId, <<>>, "provideHumanInput")

\* HITLFramework's human_input_required handler calls requestInput; a gateway
\* that answers at once emits human_input inside it, and the framework's
\* human_input handler calls provideHumanInput in the same run.
humanInputRequired(M, instanceId, answer) ==
    IF hitl = "auto" /\ CanProvide(M, instanceId)
    THEN provideHumanInput(M, instanceId, answer)
    ELSE M

\* executeNextStep, `else` (the step failed) and `catch (error)`: both set
\* status failed and emit workflow_failed for the activation's step; an
\* exception of a listener of workflow_failed leaves the catch block and
\* rejects the activation's promise.
failWorkflowAndContinue(M, instanceId, stepId, error, stack, root) ==
    executeNextStep(emitEvent(SetStatus(M, instanceId, "failed"),
                              instanceId, "workflow_failed", stepId, NoStep, error),
                    instanceId, stack, root)

failWorkflow(M, instanceId, stepId, error, stack, root) ==
    Settle(emitEvent(SetStatus(M, instanceId, "failed"),
                     instanceId, "workflow_failed", stepId, NoStep, error),
           instanceId, stack, root, ListenerThrows("workflow_failed"))

\* `else` (the step failed), inside the try block: an exception of a
\* listener of workflow_failed reaches the catch block, which sets failed
\* and emits workflow_failed once more.
failStep(M, job) ==
    IF ListenerThrows("workflow_failed")
    THEN failWorkflow(emitEvent(SetStatus(M, job.inst, "failed"),
                                job.inst, "workflow_failed", job.step.id, NoStep,
                                job.result.error),
                      job.inst, job.step.id, ListenerError, job.stack, job.root)
    ELSE failWorkflow(M, job.inst, job.step.id, job.result.error, job.stack, job.root)

pauseForHumanInputThenTouch(M, job, answer) ==
    LET paused == [SetStatus(M, job.inst, "paused")
                      EXCEPT !.pendingHumanInputs =
                                 MapSet(@, job.inst, job.result.requiresHuman)]
        emitted == humanInputRequired(
                       emitEvent(paused, job.inst, "human_input_required", job.step.id,
                                 NoStep, NoError),
                       job.inst, answer)
    IN  Settle(SetStatus(emitted, job.inst, emitted.states[job.inst].status),
               job.inst, job.stack, job.root, FALSE)

\* executeNextStep, `if (result.requiresHuman)`: pause for human input.
pauseForHumanInput(M, job, answer) ==
    LET paused == [SetStatus(M, job.inst, "paused")
                      EXCEPT !.pendingHumanInputs =
                                 MapSet(@, job.inst, job.result.requiresHuman)]
        emitted == humanInputRequired(
                       emitEvent(paused, job.inst, "human_input_required", job.step.id,
                                 NoStep, NoError),
                       job.inst, answer)
    IN  IF ListenerThrows("human_input_required")
        THEN failWorkflow(emitted, job.inst, job.step.id, ListenerError, job.stack, job.root)
        ELSE Settle(emitted, job.inst, job.stack, job.root, FALSE)

completeStepTwice(M, job) ==
    LET state == M.states[job.inst]
        done == [M EXCEPT !.states[job.inst].completedSteps = Append(@, job.step.id),
                          !.heap[state.stepData][job.step.id] =
                              IF job.result.data # {} THEN job.result.data ELSE @]
        once == executeNextStep(emitEvent(done, job.inst, "step_completed", job.step.id,
                                          NoStep, NoError),
                                job.inst, <<job.step.id>> \o job.stack, job.root)
    IN  executeNextStep(once, job.inst, <<job.step.id>> \o job.stack, job.root)

completeStepAndStop(M, job) ==
    LET state == M.states[job.inst]
        done == [M EXCEPT !.states[job.inst].completedSteps = Append(@, job.step.id),
                          !.heap[state.stepData][job.step.id] =
                              IF job.result.data # {} THEN job.result.data ELSE @]
    IN  Settle(emitEvent(done, job.inst, "step_completed", job.step.id, NoStep, NoError),
               job.inst, job.stack, job.root, FALSE)

\* executeNextStep, `else if (result.success)`: the step completed; go on.
completeStep(M, job) ==
    LET state == M.states[job.inst]
        done == [M EXCEPT !.states[job.inst].completedSteps = Append(@, job.step.id),
                          !.heap[state.stepData][job.step.id] =
                              IF job.result.data # {} THEN job.result.data ELSE @]
        emitted == emitEvent(done, job.inst, "step_completed", job.step.id, NoStep, NoError)
    IN  IF ListenerThrows("step_completed")
        THEN failWorkflow(emitted, job.inst, job.step.id, ListenerError, job.stack, job.root)
        ELSE executeNextStep(emitted, job.inst, <<job.step.id>> \o job.stack, job.root)

\* The rejection of `await this.executeStep(...)` reaches the catch block.
rethrowStepError(M, job) ==
    Settle(M, job.inst, job.stack, job.root, TRUE)

catchStepError(M, job) ==
    failWorkflow(M, job.inst, job.step.id, job.result.error, job.stack, job.root)

\* executeNextStep from the resumption of `await this.executeStep(...)` on.
resumeExecuteNextStep(M, job, answer) ==
    IF job.result.threw THEN catchStepError(M, job)
    ELSE IF job.result.requiresHuman # NoInput THEN pauseForHumanInput(M, job, answer)
    ELSE IF job.result.success THEN completeStep(M, job)
    ELSE failStep(M, job)

\* An executeNextStep frame resumes from `await this.executeNextStep(...)`:
\* a rejection lands in its catch block, otherwise it returns.
resumeAwaitingFrame(M, job) ==
    IF job.threw
    THEN failWorkflow(M, job.inst, Head(job.stack), [msg |-> "Error", tag |-> None],
                      Tail(job.stack), job.root)
    ELSE Settle(M, job.inst, Tail(job.stack), job.root, FALSE)

\* startWorkflow past its guard, up to `await this.executeNextStep`.
startWorkflow(M, instanceId, workflowId, initialData) ==
    LET ref == IF initialData = Undefined THEN OwnRef(instanceId) ELSE initialData
        state == [id |-> instanceId, workflowId |-> workflowId, currentStepId |-> None,
                  completedSteps |-> <<>>, stepData |-> ref, status |-> "pending"]
        M1 == [M EXCEPT !.states = MapSet(@, instanceId, state),
                        !.statusTrace = MapSet(@, instanceId, <<"pending">>),
                        !.events = MapSet(@, instanceId, << >>),
                        !.heap = IF initialData = Undefined
                                 THEN MapSet(@, ref, EmptyData) ELSE @]
    IN  executeNextStep(M1, instanceId, <<>>, "startWorkflow")

Commit(M) ==
    /\ workflows' = M.workflows
    /\ states' = M.states
    /\ pendingHumanInputs' = M.pendingHumanInputs
    /\ heap' = M.heap
    /\ events' = M.events
    /\ microtasks' = M.microtasks
    /\ statusTrace' = M.statusTrace

-----------------------------------------------------------------------------
(* LLM provider registry (LLMProviderFactory) and dispatch (LLMManager)    *)

\* Length of the longest configured fallbackProviders list
MaxFallbacks == 2

\* LLMProviderType, in the order initializeProviders registers the adapters
ProviderTypes == {"openai", "anthropic", "gemini"}
BuiltInProviders == <<"openai", "anthropic", "gemini">>

\* The names given to the registry: the built-in ones and the README's 'custom'
RegistryNames == ProviderTypes \cup {"custom"}

Range(seq) == {seq[n] : n \in 1..Len(seq)}

\* The keys of config.providers, in the order Object.entries lists them
ConfiguredProviders ==
    { <<"gemini", "anthropic">>, <<"openai", "anthropic", "gemini">> }

FallbackLists == UNION {[1..n -> ProviderTypes] : n \in 0..MaxFallbacks}

\* MultiLLMConfig
Configs == [primaryProvider : ProviderTypes, fallbackProviders : FallbackLists,
            providers : ConfiguredProviders]

NoConfig == [primaryProvider |-> None, fallbackProviders |-> << >>, providers |-> << >>]

\* Map.set on a map kept as the sequence of its keys (insertion order)
KeysSet(keys, k) == IF k \in Range(keys) THEN keys ELSE Append(keys, k)

\* The adapter's static isAvailable(): whether `await import(sdk)` succeeds
isAvailable(type) == type \in sdk

\* LLMProviderFactory.initializeProviders: registers the three adapters once
\* (their modules load without their SDK, which they import lazily).
RECURSIVE registerAll(_, _)
registerAll(keys, names) ==
    IF names = << >> THEN keys ELSE registerAll(KeysSet(keys, Head(names)), Tail(names))

\* F.custom holds the names whose registered class is the one given to
\* registerProvider; the class of the other names is the built-in adapter.
initializeProviders(F) ==
    IF F.initialized THEN F
    ELSE [F EXCEPT !.providers = registerAll(@, BuiltInProviders),
                   !.custom = @ \ Range(BuiltInProviders),
                   !.initialized = TRUE]

\* LLMProviderFactory.registerProvider(name, providerClass)
registerProvider(F, name) ==
    [F EXCEPT !.providers = KeysSet(@, name), !.custom = @ \cup {name}]

\* ProviderClass.isAvailable is defined: the built-in adapters have the static
\* probe, the README's CustomLLMProvider has none.
hasProbe(F, type) == type \notin F.custom

\* The class createProvider instantiates for a registered name
providerClass(F, type) == IF type \in F.custom THEN "custom" ELSE "builtin"

\* LLMProviderFactory.checkProviderAvailability: the factory after the call
\* and the value returned.
checkProviderAvailability(F, type) ==
    LET F1 == initializeProviders(F)
    IN  IF type \in DOMAIN F1.availabilityCache
        THEN [factory |-> F1, value |-> F1.availabilityCache[type]]
        ELSE LET value == /\ type \in Range(F1.providers)
                          /\ hasProbe(F1, type) => isAvailable(type)
             IN  [factory |-> [F1 EXCEPT !.availabilityCache = MapSet(@, type, value)],
                  value |-> value]

\* LLMProviderFactory.getAvailableProvidersAsync
RECURSIVE checkEach(_, _, _)
checkEach(F, names, available) ==
    IF names = << >> THEN [factory |-> F, value |-> available]
    ELSE LET checked == checkProviderAvailability(F, Head(names))
         IN  checkEach(checked.factory, Tail(names),
                       IF checked.value THEN Append(available, Head(names)) ELSE available)

getAvailableProvidersAsync(F) ==
    LET F1 == initializeProviders(F)
    IN  checkEach(F1, F1.providers, << >>)

\* LLMProviderFactory.createProvider: whether it returns an adapter (TRUE)
\* or throws (FALSE).
createProviderUnprobed(F, type) == type \in Range(initializeProviders(F).providers)

createProvider(F, type) ==
    /\ type \in Range(initializeProviders(F).providers)
    /\ hasProbe(initializeProviders(F), type) => isAvailable(type)

\* The probes a call runs, in order: checkProviderAvailability probes a
\* registered type that has no cache entry, createProvider every registered
\* type it is asked for.
probedByCheck(F, type) ==
    LET F1 == initializeProviders(F)
    IN  IF /\ type \notin DOMAIN F1.availabilityCache
           /\ type \in Range(F1.providers)
           /\ hasProbe(F1, type)
        THEN <<type>> ELSE << >>

probedByGetAvailable(F) ==
    LET F1 == initializeProviders(F)
    IN  SelectSeq(F1.providers,
                  LAMBDA type : type \notin DOMAIN F1.availabilityCache /\ hasProbe(F1, type))

probedByCreate(F, type) ==
    LET F1 == initializeProviders(F)
    IN  IF type \in Range(F1.providers) /\ hasProbe(F1, type) THEN <<type>> ELSE << >>

probedByInitialize(F, config) ==
    LET got == getAvailableProvidersAsync(F)
    IN  probedByGetAvailable(F) \o
            SelectSeq(config.providers,
                      LAMBDA type : /\ type \in Range(got.value)
                                    /\ probedByCreate(got.factory, type) # << >>)

NoLog == [once |-> {}, again |-> {}, registered |-> {}]

\* The log after the probes of types: once holds the types probed, again
\* those probed more than once.
RECURSIVE logProbes(_, _)
logProbes(log, types) ==
    IF types = << >> THEN log
    ELSE logProbes([log EXCEPT !.again = IF Head(types) \in log.once
                                         THEN @ \cup {Head(types)} ELSE @,
                               !.once = @ \cup {Head(types)}],
                   Tail(types))

\* new LLMManager(config)
NoManager == [phase |-> "none", providers |-> << >>, primaryProvider |-> None,
              fallbackProviders |-> << >>, config |-> NoConfig]

newLLMManager(config) ==
    [phase |-> "constructed", providers |-> << >>,
     primaryProvider |-> config.primaryProvider,
     fallbackProviders |-> config.fallbackProviders, config |-> config]

RECURSIVE constructEachIgnoringAvailability(_, _, _, _)
constructEachIgnoringAvailability(F, configured, available, constructed) ==
    IF configured = << >> THEN constructed
    ELSE constructEachIgnoringAvailability(F, Tail(configured), available,
                       IF createProvider(F, Head(configured))
                       THEN KeysSet(constructed, Head(configured))
                       ELSE constructed)

\* LLMManager.initialize, the loop over Object.entries(config.providers)
RECURSIVE constructEach(_, _, _, _)
constructEach(F, configured, available, constructed) ==
    IF configured = << >> THEN constructed
    ELSE constructEach(F, Tail(configured), available,
                       IF Head(configured) \in Range(available)
                          /\ createProvider(F, Head(configured))
                       THEN KeysSet(constructed, Head(configured))
                       ELSE constructed)

\* LLMManager.getAvailableProviders
getAvailableProviders(Mg) == Mg.providers

initializeKeepsPrimary(Mg, F, config) ==
    LET got == getAvailableProvidersAsync(F)
        constructed == constructEach(got.factory, config.providers, got.value, Mg.providers)
        Mg1 == [Mg EXCEPT !.providers = constructed]
    IN  IF constructed = << >>
        THEN [manager |-> [Mg1 EXCEPT !.phase = "failed"], factory |-> got.factory,
              outcome |-> "NoProvidersAvailable"]
        ELSE [manager |-> [Mg1 EXCEPT !.phase = "ready"],
              factory |-> got.factory, outcome |-> "ok"]

\* LLMManager.initialize: the manager and the factory after it, and its outcome
initialize(Mg, F, config) ==
    LET got == getAvailableProvidersAsync(F)
        constructed == constructEach(got.factory, config.providers, got.value, Mg.providers)
        Mg1 == [Mg EXCEPT !.providers = constructed]
    IN  IF constructed = << >>
        THEN [manager |-> [Mg1 EXCEPT !.phase = "failed"], factory |-> got.factory,
              outcome |-> "NoProvidersAvailable"]
        ELSE [manager |-> [Mg1 EXCEPT !.phase = "ready",
                                      !.primaryProvider =
                                          IF @ \in Range(constructed) THEN @
                                          ELSE getAvailableProviders(Mg1)[1]],
              factory |-> got.factory, outcome |-> "ok"]

\* LLMManager.chat: providersToTry
providersToTry(Mg) ==
    <<Mg.primaryProvider>> \o
        SelectSeq(Mg.fallbackProviders, LAMBDA p : p \in Range(Mg.providers))

\* LLMManager.chat, the loop from position n of providersToTry; up holds the
\* providers whose chat succeeds, tried the providers called so far.
RECURSIVE chatLoop(_, _, _, _, _)
chatLoop(Mg, toTry, n, up, tried) ==
    IF n > Len(toTry)
    THEN [outcome |-> "NoProviders", provider |-> None, tried |-> tried]
    ELSE IF toTry[n] \notin Range(Mg.providers)
    THEN chatLoop(Mg, toTry, n + 1, up, tried)
    ELSE IF toTry[n] \in up
    THEN [outcome |-> "response", provider |-> toTry[n], tried |-> Append(tried, toTry[n])]
    ELSE IF toTry[n] = toTry[Len(toTry)]
    THEN [outcome |-> "AllProvidersFailed", provider |-> toTry[n],
          tried |-> Append(tried, toTry[n])]
    ELSE chatLoop(Mg, toTry, n + 1, up, Append(tried, toTry[n]))

chat(Mg, up) == chatLoop(Mg, providersToTry(Mg), 1, up, << >>)

isHealthyAlways(type, up) == TRUE

\* The adapters' isHealthy: the probe request (SDK check, client, one small
\* completion) inside try/catch; up holds the providers whose request succeeds.
isHealthy(type, up) == type \in up

\* LLMManager.checkHealth: the mapping it returns
checkHealth(Mg, up) == [type \in Range(Mg.providers) |-> isHealthy(type, up)]

NoCall == [op |-> None, outcome |-> None, provider |-> None, tried |-> << >>,
           toTry |-> << >>, up |-> {}, health |-> << >>,
           cls |-> None, available |-> << >>]

-----------------------------------------------------------------------------
(* Actions *)

\* No chat call of the Gemini adapter
NoGeminiChat == [phase |-> None, messages |-> << >>, history |-> << >>, sent |-> << >>]

\* No registry operation in flight; runs counts the passes of
\* initializeProviders beyond its `if (this.initialized) return`.
NoInits == [runs |-> 0, ops |-> << >>]

\* new ConsoleHITL(): the import of readline is begun, this.readline is not
\* set yet; nothing printed, no question asked, no event emitted.
NewConsoleHITL == [readline |-> FALSE, requests |-> << >>, prompts |-> << >>,
                   questions |-> {}, human_input |-> << >>]

InitAdapters ==
    gemini = NoGeminiChat /\ inits = NoInits /\ console = NewConsoleHITL /\ listener = {}

InitEngine(gateways) ==
    /\ workflows = << >>
    /\ states = << >>
    /\ pendingHumanInputs = << >>
    /\ heap = [r \in {SeedRef} |-> SeedData]
    /\ events = << >>
    /\ microtasks = << >>
    /\ returned = << >>
    /\ statusTrace = << >>
    /\ startedAs = << >>
    /\ lastCall = None
    /\ calls = 0
    /\ hitl \in gateways
    /\ redefined = {}
    /\ looked = NoLookup
    /\ sdk = {}
    /\ factory = [providers |-> << >>, custom |-> {}, availabilityCache |-> << >>,
                  initialized |-> FALSE]
    /\ registryLog = NoLog
    /\ manager = NoManager
    /\ llmCall = NoCall

\* HITLFramework constructed without a HITLInterface ("none") or with one that
\* answers inside requestInput ("auto")
Init == InitEngine({"none", "auto"}) /\ InitAdapters

\* registerWorkflow(workflow)
RegisterWorkflow(workflowId, definition) ==
    /\ calls < MaxCalls
    /\ calls' = calls + 1
    /\ workflows' = MapSet(workflows, workflowId, definition)
    /\ lastCall' = "ok"
    /\ redefined' = redefined \cup {i \in DOMAIN states :
                                       /\ states[i].workflowId = workflowId
                                       /\ workflows[workflowId] # definition}
    /\ looked' = NoLookup
    /\ UNCHANGED <<states, pendingHumanInputs, heap, events, microtasks, returned,
                   statusTrace, startedAs, hitl, llmVars, adapterVars>>

\* startWorkflow(workflowId, initialData): the call, up to its first await.
StartWorkflowCreatesFirst(workflowId, initialData) ==
    LET instanceId == Cardinality(DOMAIN states) + 1
    IN  /\ Commit([startWorkflow(Engine, instanceId, workflowId, initialData)
                      EXCEPT !.microtasks = microtasks])
        /\ returned' = MapSet(returned, instanceId, None)
        /\ startedAs' = MapSet(startedAs, instanceId, << >>)
        /\ lastCall' = IF workflowId \in DOMAIN workflows THEN "ok" ELSE "NotFound"
        /\ looked' = NoLookup
        /\ UNCHANGED <<calls, hitl, redefined, llmVars, adapterVars>>

StartWorkflow(workflowId, initialData) ==
    LET instanceId == Cardinality(DOMAIN states) + 1
    IN  IF workflowId \notin DOMAIN workflows
        THEN /\ lastCall' = "NotFound"
             /\ looked' = NoLookup
             /\ UNCHANGED <<workflows, states, pendingHumanInputs, heap, events,
                            microtasks, returned, statusTrace, startedAs, calls, hitl,
                            redefined, llmVars, adapterVars>>
        ELSE /\ calls < MaxCalls
             /\ calls' = calls + 1
             /\ Commit(startWorkflow(Engine, instanceId, workflowId, initialData))
             /\ returned' = MapSet(returned, instanceId, None)
             /\ startedAs' = MapSet(startedAs, instanceId, workflows[workflowId])
             /\ lastCall' = "ok"
             /\ looked' = NoLookup
             /\ UNCHANGED <<hitl, redefined, llmVars, adapterVars>>

\* provideHumanInput(instanceId, input), called by any caller (the
\* framework's provideInput, or the gateway's human_input event arriving
\* after requestInput has returned).
ProvideHumanInputMutatesFirst(instanceId, input) ==
    IF CanProvide(Engine, instanceId)
    THEN /\ calls < MaxCalls
         /\ calls' = calls + 1
         /\ Commit(provideHumanInput(Engine, instanceId, input))
         /\ lastCall' = "ok"
         /\ looked' = NoLookup
         /\ UNCHANGED <<returned, startedAs, hitl, redefined, llmVars, adapterVars>>
    ELSE /\ lastCall' = "InvalidState"
         /\ Commit(IF instanceId \in DOMAIN states
                   THEN SetStatus(Engine, instanceId, "running") ELSE Engine)
         /\ looked' = NoLookup
         /\ UNCHANGED <<returned, startedAs, calls, hitl, redefined, llmVars, adapterVars>>

ProvideHumanInput(instanceId, input) ==
    IF CanProvide(Engine, instanceId)
    THEN /\ calls < MaxCalls
         /\ calls' = calls + 1
         /\ Commit(provideHumanInput(Engine, instanceId, input))
         /\ lastCall' = IF ListenerThrows("step_completed") THEN "ListenerError" ELSE "ok"
         /\ looked' = NoLookup
         /\ UNCHANGED <<returned, startedAs, hitl, redefined, llmVars, adapterVars>>
    ELSE /\ lastCall' = "InvalidState"
         /\ looked' = NoLookup
         /\ UNCHANGED <<workflows, states, pendingHumanInputs, heap, events,
                        microtasks, returned, statusTrace, startedAs, calls, hitl,
                        redefined, llmVars, adapterVars>>

\* The event loop runs the oldest microtask.
RunMicrotask(answer) ==
    /\ microtasks # << >>
    /\ LET job == Head(microtasks)
           M == [Engine EXCEPT !.microtasks = Tail(@)]
       IN  IF job.kind = "exec"
           THEN /\ Commit(resumeExecuteNextStep(M, job, answer))
                /\ UNCHANGED returned
           ELSE IF job.stack # << >>
           THEN /\ Commit(resumeAwaitingFrame(M, job))
                /\ UNCHANGED returned
           ELSE IF job.root = "startWorkflow"
           THEN /\ Commit(M)
                /\ returned' = [returned EXCEPT ![job.inst] =
                                   IF job.threw THEN "rejected" ELSE states[job.inst].status]
           ELSE /\ Commit(M)
                /\ UNCHANGED returned
    /\ looked' = NoLookup
    /\ UNCHANGED <<startedAs, lastCall, calls, hitl, redefined, llmVars, adapterVars>>

\* getWorkflowState(instanceId)
GetWorkflowStateCreates(instanceId) ==
    /\ looked' = [op |-> "getWorkflowState", id |-> instanceId,
                  value |-> IF instanceId \in DOMAIN states THEN states[instanceId]
                            ELSE Undefined]
    /\ pendingHumanInputs' = MapSet(pendingHumanInputs, instanceId, NoInput)
    /\ UNCHANGED <<workflows, states, heap, events, microtasks, returned,
                   statusTrace, startedAs, lastCall, calls, hitl, redefined, llmVars, adapterVars>>

GetWorkflowState(instanceId) ==
    /\ looked' = [op |-> "getWorkflowState", id |-> instanceId,
                  value |-> IF instanceId \in DOMAIN states THEN states[instanceId]
                            ELSE Undefined]
    /\ UNCHANGED <<workflows, states, pendingHumanInputs, heap, events, microtasks, returned,
                   statusTrace, startedAs, lastCall, calls, hitl, redefined, llmVars, adapterVars>>

\* getPendingHumanInput(instanceId)
GetPendingHumanInput(instanceId) ==
    /\ looked' = [op |-> "getPendingHumanInput", id |-> instanceId,
                  value |-> IF instanceId \in DOMAIN pendingHumanInputs
                            THEN pendingHumanInputs[instanceId] ELSE Undefined]
    /\ UNCHANGED <<workflows, states, pendingHumanInputs, heap, events, microtasks, returned,
                   statusTrace, startedAs, lastCall, calls, hitl, redefined, llmVars, adapterVars>>

Next ==
    \/ \E w \in WorkflowIds, d \in Definitions : RegisterWorkflow(w, d)
    \/ \E w \in WorkflowIds, data \in {Undefined, SeedRef} : StartWorkflow(w, data)
    \/ \E i \in 1..Cardinality(DOMAIN states) + 1, a \in Answers : ProvideHumanInput(i, a)
    \/ \E answer \in Answers : RunMicrotask(answer)

Spec == Init /\ [][Next]_vars

\* The engine with, besides, the calls that must leave it as it is: the two
\* lookups and startWorkflow of a definition id that is not registered.
ProbedDefinitions ==
    { << Step("a", "system", {}), Step("b", "human", {"a"}), Step("c", "system", {"b"}) >>,
      << Step("a", "system", {}), Step("b", "bogus", {"a"}), Step("c", "system", {}) >> }

InitProbes == Init /\ hitl = "none"

NextProbes ==
    \/ \E w \in WorkflowIds, d \in ProbedDefinitions :
           calls < MaxProbedCalls /\ RegisterWorkflow(w, d)
    \/ \E w \in WorkflowIds, data \in {Undefined, SeedRef} :
           calls < MaxProbedCalls /\ StartWorkflow(w, data)
    \/ \E i \in 1..Cardinality(DOMAIN states) + 1, a \in Answers :
           calls < MaxProbedCalls /\ ProvideHumanInput(i, a)
    \/ \E answer \in Answers : RunMicrotask(answer)
    \/ \E i \in 1..Cardinality(DOMAIN states) + 1 : GetWorkflowState(i)
    \/ \E i \in 1..Cardinality(DOMAIN states) + 1 : GetPendingHumanInput(i)
    \/ \E data \in {Undefined, SeedRef} : StartWorkflow(Unregistered, data)

SpecProbes == InitProbes /\ [][NextProbes]_vars

\* The gateway's human_input event for a request it has not answered yet,
\* arriving after requestInput has returned: HITLFramework's handler calls
\* provideHumanInput.
GatewayAnswers(instanceId, input) ==
    /\ hitl = "later"
    /\ CanProvide(Engine, instanceId)
    /\ Commit(provideHumanInput(Engine, instanceId, input))
    /\ lastCall' = "ok"
    /\ looked' = NoLookup
    /\ UNCHANGED <<returned, startedAs, calls, hitl, redefined, llmVars, adapterVars>>

\* HITLFramework with a gateway that answers every request once, at once
\* ("auto") or later ("later"), and an event loop that runs every queued
\* continuation.
InitLive == InitEngine({"auto", "later"}) /\ InitAdapters

LiveDefinitions ==
    { << Step("a", "system", {}), Step("b", "human", {"a"}), Step("c", "system", {"b"}) >>,
      << Step("a", "human", {}), Step("c", "agent", {"a"}), Step("b", "human", {"c"}) >>,
      << Step("a", "agent", {}), StepNoConfig("b", "human", {"a"}), Step("c", "system", {}) >> }

NextLive ==
    \/ \E w \in WorkflowIds, d \in LiveDefinitions :
           calls < MaxLiveCalls /\ RegisterWorkflow(w, d)
    \/ \E w \in WorkflowIds :
           calls < MaxLiveCalls /\ StartWorkflow(w, Undefined)
    \/ \E i \in DOMAIN states, a \in Answers : GatewayAnswers(i, a)
    \/ \E answer \in Answers : RunMicrotask(answer)

\* Weak fairness of the event loop and of the gateway, per request, with the
\* enabling condition of each action written out: a continuation is queued,
\* the instance waits for the answer to its request.
SpecLive ==
    /\ InitLive /\ [][NextLive]_vars
    /\ \/ []<>(microtasks = << >>)
       \/ []<><<\E answer \in Answers : RunMicrotask(answer)>>_vars
    /\ \A i \in 1..MaxLiveCalls :
           \/ []<>(~(hitl = "later" /\ CanProvide(Engine, i)))
           \/ []<><<\E a \in Answers : GatewayAnswers(i, a)>>_vars

-----------------------------------------------------------------------------
(* Actions of the LLM registry and manager *)

\* The environment: an SDK package is installed or removed.
SdkChange(type) ==
    /\ sdk' = IF type \in sdk THEN sdk \ {type} ELSE sdk \cup {type}
    /\ llmCall' = NoCall
    /\ UNCHANGED <<factory, manager, registryLog, engineVars, adapterVars>>

\* LLMProviderFactory.checkProviderAvailability(type)
CheckProviderAvailability(type) ==
    LET checked == checkProviderAvailability(factory, type)
    IN  /\ factory' = checked.factory
        /\ llmCall' = [NoCall EXCEPT !.op = "checkProviderAvailability",
                                     !.outcome = IF checked.value THEN "true" ELSE "false",
                                     !.provider = type]
        /\ registryLog' = logProbes(registryLog, probedByCheck(factory, type))
        /\ UNCHANGED <<sdk, manager, engineVars, adapterVars>>

\* LLMProviderFactory.getAvailableProvidersAsync()
GetAvailableProvidersAsync ==
    LET got == getAvailableProvidersAsync(factory)
    IN  /\ factory' = got.factory
        /\ llmCall' = [NoCall EXCEPT !.op = "getAvailableProvidersAsync",
                                     !.outcome = "returned", !.available = got.value]
        /\ registryLog' = logProbes(registryLog, probedByGetAvailable(factory))
        /\ UNCHANGED <<sdk, manager, engineVars, adapterVars>>

\* LLMProviderFactory.createProvider(type, config)
CreateProvider(type) ==
    /\ factory' = initializeProviders(factory)
    /\ llmCall' = IF createProvider(factory, type)
                  THEN [NoCall EXCEPT !.op = "createProvider", !.outcome = "adapter",
                                      !.provider = type,
                                      !.cls = providerClass(factory', type)]
                  ELSE [NoCall EXCEPT !.op = "createProvider",
                                      !.outcome = "ProviderUnavailable",
                                      !.provider = type]
    /\ registryLog' = logProbes(registryLog, probedByCreate(factory, type))
    /\ UNCHANGED <<sdk, manager, engineVars, adapterVars>>

\* LLMProviderFactory.registerProvider(name, CustomLLMProvider)
RegisterProvider(name) ==
    /\ factory' = registerProvider(factory, name)
    /\ llmCall' = [NoCall EXCEPT !.op = "registerProvider", !.outcome = "returned",
                                 !.provider = name]
    /\ registryLog' = [registryLog EXCEPT !.registered = @ \cup {name}]
    /\ UNCHANGED <<sdk, manager, engineVars, adapterVars>>

\* LLMManager.create(config): the constructor, then initialize(config)
Create(config) ==
    /\ manager.phase = "none"
    /\ LET done == initialize(newLLMManager(config), factory, config)
       IN  /\ manager' = done.manager
           /\ factory' = done.factory
           /\ llmCall' = [NoCall EXCEPT !.op = "initialize", !.outcome = done.outcome]
    /\ registryLog' = logProbes(registryLog, probedByInitialize(factory, config))
    /\ UNCHANGED <<sdk, engineVars, adapterVars>>

SwitchPrimaryProviderUnchecked(provider) ==
    /\ manager.phase = "ready"
    /\ llmCall' = [NoCall EXCEPT !.op = "switchPrimaryProvider",
                                 !.outcome = "ok", !.provider = provider]
    /\ manager' = [manager EXCEPT !.primaryProvider = provider]
    /\ UNCHANGED <<sdk, factory, registryLog, engineVars, adapterVars>>

\* LLMManager.switchPrimaryProvider(provider)
SwitchPrimaryProvider(provider) ==
    /\ manager.phase = "ready"
    /\ IF provider \notin Range(manager.providers)
       THEN /\ llmCall' = [NoCall EXCEPT !.op = "switchPrimaryProvider",
                                         !.outcome = "NotAvailable", !.provider = provider]
            /\ UNCHANGED manager
       ELSE /\ llmCall' = [NoCall EXCEPT !.op = "switchPrimaryProvider",
                                         !.outcome = "ok", !.provider = provider]
            /\ manager' = [manager EXCEPT !.primaryProvider = provider]
    /\ UNCHANGED <<sdk, factory, registryLog, engineVars, adapterVars>>

ChatPromotesFallback(up) ==
    /\ manager.phase = "ready"
    /\ LET result == chat(manager, up)
       IN  /\ llmCall' = [NoCall EXCEPT !.op = "chat", !.outcome = result.outcome,
                                       !.provider = result.provider,
                                       !.tried = result.tried,
                                       !.toTry = providersToTry(manager), !.up = up]
           /\ manager' = IF result.outcome = "response"
                         THEN [manager EXCEPT !.primaryProvider = result.provider]
                         ELSE manager
    /\ UNCHANGED <<sdk, factory, registryLog, engineVars, adapterVars>>

\* LLMManager.chat(messages, options), while the chat of the providers in up
\* succeeds and the chat of the others throws.
Chat(up) ==
    /\ manager.phase = "ready"
    /\ LET result == chat(manager, up)
       IN  llmCall' = [NoCall EXCEPT !.op = "chat", !.outcome = result.outcome,
                                    !.provider = result.provider,
                                    !.tried = result.tried,
                                    !.toTry = providersToTry(manager), !.up = up]
    /\ UNCHANGED <<sdk, factory, manager, registryLog, engineVars, adapterVars>>

\* LLMManager.checkHealth(), while the probe request of the providers in up
\* succeeds and that of the others throws.
CheckHealth(up) ==
    /\ manager.phase = "ready"
    /\ llmCall' = [NoCall EXCEPT !.op = "checkHealth", !.outcome = "returned",
                                 !.up = up, !.health = checkHealth(manager, up)]
    /\ UNCHANGED <<sdk, factory, manager, registryLog, engineVars, adapterVars>>

InitLLM == Init /\ hitl = "none"

NextLLM ==
    \/ \E type \in ProviderTypes : SdkChange(type)
    \/ \E type \in ProviderTypes : CheckProviderAvailability(type)
    \/ \E config \in Configs : Create(config)
    \/ \E provider \in ProviderTypes : SwitchPrimaryProvider(provider)
    \/ \E up \in SUBSET Range(manager.providers) : Chat(up)
    \/ \E up \in SUBSET Range(manager.providers) : CheckHealth(up)

SpecLLM == InitLLM /\ [][NextLLM]_vars

\* The names registerProvider is called with: a new name, and a built-in one
RegisteredNames == {"custom", "openai"}

\* The names the registry is asked about: two built-in ones and the new one
RequestedNames == {"openai", "anthropic", "custom"}

\* The registry alone, used directly and extended with a custom provider
NextRegistry ==
    \/ \E type \in RequestedNames \cap ProviderTypes : SdkChange(type)
    \/ \E type \in RequestedNames : CheckProviderAvailability(type)
    \/ GetAvailableProvidersAsync
    \/ \E type \in RequestedNames : CreateProvider(type)
    \/ \E name \in RegisteredNames : RegisterProvider(name)

SpecRegistry == InitLLM /\ [][NextRegistry]_vars

-----------------------------------------------------------------------------
(* Helpers of the properties *)

Instances == DOMAIN states

\* Positions of seq holding x
Positions(seq, x) == {n \in 1..Len(seq) : seq[n] = x}

\* The events of instance i of the given type
EventsOfType(i, type) == {n \in 1..Len(events[i]) : events[i][n].type = type}

\* An await of instance i is still to be resumed
InFlight(i) == \E n \in 1..Len(microtasks) : microtasks[n].inst = i

Terminal(status) == status \in {"completed", "failed"}

-----------------------------------------------------------------------------
(* C1: an instance has a stored pending human input if and only if its     *)
(* status is paused, in every reachable state of the engine.               *)

C1_PendingIffPaused ==
    \A i \in Instances : (i \in DOMAIN pendingHumanInputs) <=> (states[i].status = "paused")

\* One instance is paused with its pending input; another was paused, has
\* been given its input and runs on without one.
C1_Witness ==
    \E i, j \in Instances :
        /\ states[i].status = "paused"
        /\ i \in DOMAIN pendingHumanInputs
        /\ EventsOfType(j, "human_input_required") # {}
        /\ states[j].status = "running"
        /\ j \notin DOMAIN pendingHumanInputs

-----------------------------------------------------------------------------
(* C2: for every step id s in completedSteps, every declared dependency of *)
(* s was appended to completedSteps strictly before s.                     *)

\* The dependencies the instance's registered definition declares for s
DeclaredDependencies(i, s) ==
    LET workflow == workflows[states[i].workflowId]
    IN  UNION {workflow[n].dependencies : n \in {m \in 1..Len(workflow) : workflow[m].id = s}}

\* The dependencies s declared when the engine selected it (step_started)
DependenciesWhenSelected(i, s) ==
    UNION {events[i][n].step.dependencies :
               n \in {m \in EventsOfType(i, "step_started") : events[i][m].stepId = s}}

\* As claimed: against the dependencies the registered definition declares.
C2_DeclaredDependenciesFirst ==
    \A i \in Instances :
        LET done == states[i].completedSteps
        IN  \A k \in 1..Len(done) :
                \A dep \in DeclaredDependencies(i, done[k]) :
                    \E j \in 1..(k - 1) : done[j] = dep

\* As amended: against the dependencies the step declared when it was
\* selected; a definition registered later under the same id may declare
\* others.
C2_SelectedDependenciesFirst ==
    \A i \in Instances :
        LET done == states[i].completedSteps
        IN  \A k \in 1..Len(done) :
                \A dep \in DependenciesWhenSelected(i, done[k]) :
                    \E j \in 1..(k - 1) : done[j] = dep

C2_Witness ==
    \E i \in Instances :
        /\ Len(states[i].completedSteps) = 3
        /\ \E k \in 1..3 : DependenciesWhenSelected(i, states[i].completedSteps[k]) # {}
        /\ EventsOfType(i, "human_input_required") # {}

-----------------------------------------------------------------------------
(* C3: completed and failed are terminal: once an instance's status is     *)
(* completed or failed, no later step of the engine changes its status,    *)
(* its completedSteps or its pending input, and no step of it is started   *)
(* again (a failed instance is not retried).                               *)

\* No value was assigned to status after completed or failed
TerminalLast(trace) == \A n \in 1..(Len(trace) - 1) : ~Terminal(trace[n])

C3_TerminalIsFinal ==
    [][\A i \in Instances :
           Terminal(states[i].status) =>
               /\ states'[i].status = states[i].status
               /\ states'[i].completedSteps = states[i].completedSteps
               /\ states'[i].currentStepId = states[i].currentStepId
               /\ (i \in DOMAIN pendingHumanInputs') = (i \in DOMAIN pendingHumanInputs)
               /\ events'[i] = events[i]
               /\ TerminalLast(statusTrace'[i])]_vars

\* A failed and a completed instance, both settled, after which a call of
\* provideHumanInput was rejected.
C3_Witness ==
    /\ lastCall = "InvalidState"
    /\ microtasks = << >>
    /\ \E i, j \in Instances :
           /\ states[i].status = "failed" /\ returned[i] = "failed"
           /\ states[j].status = "completed" /\ returned[j] = "completed"

-----------------------------------------------------------------------------
(* C4: every status change follows pending -> running ->                   *)
(* (paused <-> running)* -> completed | failed.                            *)

ClaimedTransitions ==
    { <<"pending", "running">>, <<"running", "paused">>, <<"paused", "running">>,
      <<"running", "completed">>, <<"running", "failed">> }

FollowsTransitions(trace, allowed) ==
    /\ trace[1] = "pending"
    /\ \A n \in 1..(Len(trace) - 1) :
           trace[n] # trace[n + 1] => <<trace[n], trace[n + 1]>> \in allowed

\* As claimed: an instance never goes from pending directly to completed.
C4_ClaimedTransitionsOnly ==
    \A i \in Instances : FollowsTransitions(statusTrace[i], ClaimedTransitions)

\* As amended: pending -> completed happens too, when no step is eligible
\* at the start.
C4_TransitionsOnly ==
    \A i \in Instances :
        FollowsTransitions(statusTrace[i],
                           ClaimedTransitions \cup {<<"pending", "completed">>})

\* An instance that was paused twice and completed.
C4_Witness ==
    \E i \in Instances :
        /\ Cardinality(Positions(statusTrace[i], "paused")) = 2
        /\ states[i].status = "completed"

-----------------------------------------------------------------------------
(* C5: a step id occurs in completedSteps at most once, also when          *)
(* provideHumanInput is called twice for the same paused instance.         *)

C5_CompletedAtMostOnce ==
    \A i \in Instances :
        \A s \in StepIds : Cardinality(Positions(states[i].completedSteps, s)) <= 1

\* The only instance was paused, one provideHumanInput was accepted (it runs
\* on) and the call after it was rejected.
C5_Witness ==
    /\ hitl = "none"
    /\ lastCall = "InvalidState"
    /\ Instances = {1}
    /\ EventsOfType(1, "human_input_required") # {}
    /\ states[1].status = "running"
    /\ Len(states[1].completedSteps) = 2

-----------------------------------------------------------------------------
(* C6: provideHumanInput fails with InvalidState whenever the instance     *)
(* does not exist, has no pending input or is not paused, and then the     *)
(* instances, the pending inputs, stepData and the events are unchanged.   *)

NotAwaitingInput(i) ==
    \/ i \notin Instances
    \/ i \notin DOMAIN pendingHumanInputs
    \/ states[i].status # "paused"

C6_RejectedInputChangesNothing ==
    [][\A i \in 1..(Cardinality(Instances) + 1), a \in Answers :
           (NotAwaitingInput(i) /\ ProvideHumanInput(i, a)) =>
               /\ lastCall' = "InvalidState"
               /\ UNCHANGED <<states, pendingHumanInputs, heap, events, statusTrace>>]_vars

\* Rejected while one instance is running and another has failed.
C6_Witness ==
    /\ lastCall = "InvalidState"
    /\ \E i, j \in Instances : states[i].status = "running" /\ states[j].status = "failed"

-----------------------------------------------------------------------------
(* C7: startWorkflow resolves only when the instance's status is paused,   *)
(* completed or failed, never while it is pending or running, whatever the *)
(* listeners and other callers do.                                         *)

C7_ResolvesWhenStable ==
    \A i \in DOMAIN returned : returned[i] \in {None, "paused", "completed", "failed"}

-----------------------------------------------------------------------------
(* C8: for a definition without a step of type human, startWorkflow        *)
(* executes each step at most once and leaves the instance completed or    *)
(* failed, never paused.                                                   *)

NoHumanStep(definition) == \A n \in 1..Len(definition) : definition[n].type # "human"

\* The steps instance i has started, as handed to step_started
StartedSteps(i) == {events[i][n].step : n \in EventsOfType(i, "step_started")}

RunsToTheEnd(i) ==
    /\ states[i].status # "paused"
    /\ \A s \in StepIds :
           Cardinality({n \in EventsOfType(i, "step_started") : events[i][n].stepId = s}) <= 1
    /\ returned[i] \in {None, "completed", "failed"}
    /\ ~InFlight(i) => Terminal(states[i].status) /\ returned[i] = states[i].status

\* As claimed: for every instance started from a definition without a step
\* of type human.
C8_HumanFreeDefinitionRunsToTheEnd ==
    \A i \in Instances : NoHumanStep(startedAs[i]) => RunsToTheEnd(i)

\* As amended: for every instance that has started no step of type human
\* (the definition registered under the instance's id may be replaced while
\* the instance runs, and the replacement may hold a human step).
C8_NoHumanStepRunsToTheEnd ==
    \A i \in Instances :
        (\A step \in StartedSteps(i) : step.type # "human") => RunsToTheEnd(i)

\* An instance of a definition without human steps has started two steps,
\* each once, and ended failed on the second.
C8_Witness ==
    \E i \in Instances :
        /\ NoHumanStep(startedAs[i]) /\ startedAs[i] = workflows[states[i].workflowId]
        /\ Cardinality(StartedSteps(i)) = 2
        /\ ~InFlight(i)
        /\ returned[i] = "failed"

-----------------------------------------------------------------------------
(* C9: a failure of a step's execution (success = false, or an exception   *)
(* thrown by executeStep) is not propagated to the caller: no await of the *)
(* engine is rejected, the instance ends failed, and exactly one           *)
(* workflow_failed event carries the failing step id and an error.         *)

\* The started steps of instance i whose execution has failed: steps of an
\* unknown type and human steps without config, once their await resumed.
FailedSteps(i) ==
    {step \in StartedSteps(i) :
        /\ \/ step.type \notin {"agent", "human", "system"}
           \/ step.type = "human" /\ ~step.config
        /\ ~\E n \in 1..Len(microtasks) :
               /\ microtasks[n].kind = "exec"
               /\ microtasks[n].inst = i
               /\ microtasks[n].step = step}

C9_StepFailureFailsTheWorkflow ==
    /\ \A n \in 1..Len(microtasks) : ~microtasks[n].threw
    /\ \A i \in Instances :
           /\ returned[i] # "rejected"
           /\ Cardinality(EventsOfType(i, "workflow_failed")) <= 1
           /\ states[i].status = "failed" <=> EventsOfType(i, "workflow_failed") # {}
           /\ \A step \in FailedSteps(i) :
                  /\ states[i].status = "failed"
                  /\ \E n \in EventsOfType(i, "workflow_failed") :
                         /\ events[i][n].stepId = step.id
                         /\ events[i][n].error # NoError

\* One instance failed on an exception of executeStep during startWorkflow,
\* another on a failure result, and both calls of startWorkflow resolved.
C9_Witness ==
    \E i, j \in Instances :
        /\ \E step \in FailedSteps(i) : step.type = "human"
        /\ \E step \in FailedSteps(j) : step.type = "bogus"
        /\ returned[i] = "failed"
        /\ returned[j] = "failed"

-----------------------------------------------------------------------------
(* C10: when the selected step has a type tag outside {agent, human,       *)
(* system}, the instance ends failed, the workflow_failed event names that *)
(* step and the tag, the step is not added to completedSteps and no later  *)
(* step is started.                                                        *)

UnknownTypeStarts(i) ==
    {n \in EventsOfType(i, "step_started") :
        events[i][n].step.type \notin {"agent", "human", "system"}}

C10_UnknownStepTypeFails ==
    \A i \in Instances :
        \A n \in UnknownTypeStarts(i) :
            LET step == events[i][n].step
            IN  /\ ~Includes(states[i].completedSteps, step.id)
                /\ \A m \in EventsOfType(i, "step_started") : m <= n
                /\ step \in FailedSteps(i) =>
                       /\ states[i].status = "failed"
                       /\ Len(events[i]) = n + 1
                       /\ events[i][n + 1].type = "workflow_failed"
                       /\ events[i][n + 1].stepId = step.id
                       /\ events[i][n + 1].error = [msg |-> "Unknown step type",
                                                    tag |-> step.type]

\* The instance failed on its second step, of type bogus; the third step,
\* which has no dependency, was not started.
C10_Witness ==
    \E i \in Instances :
        /\ UnknownTypeStarts(i) # {}
        /\ states[i].completedSteps = <<"a">>
        /\ Len(startedAs[i]) = 3
        /\ returned[i] = "failed"
-----------------------------------------------------------------------------
(* C11: the step selected is the first step, in the declared order of the  *)
(* definition, whose id is not in completedSteps and whose declared        *)
(* dependencies are all in completedSteps; no step is selected (the        *)
(* instance completes) only when no step satisfies that rule.              *)

\* The positions of the steps that satisfy the reference rule
Selectable(workflow, completed) ==
    {n \in 1..Len(workflow) :
        /\ workflow[n].id \notin Range(completed)
        /\ workflow[n].dependencies \subseteq Range(completed)}

IsReferenceChoice(step, workflow, completed) ==
    IF step = NoStep
    THEN Selectable(workflow, completed) = {}
    ELSE \E n \in Selectable(workflow, completed) :
             /\ step = workflow[n]
             /\ \A m \in 1..(n - 1) : m \notin Selectable(workflow, completed)

\* The events instance i is given by the step taken
NewEvents(i) ==
    LET before == IF i \in DOMAIN events THEN Len(events[i]) ELSE 0
    IN  {n \in 1..Len(events'[i]) : n > before}

\* Selection reads the definition registered when it runs and completedSteps
\* as they are at that moment; both are what the step taken leaves behind,
\* because a selected step completes in a later continuation only.
C11_SelectionFollowsReferenceRule ==
    [][\A i \in DOMAIN states' :
           \A n \in NewEvents(i) :
               LET workflow == workflows'[states'[i].workflowId]
                   completed == states'[i].completedSteps
               IN  /\ events'[i][n].type = "step_started" =>
                          IsReferenceChoice(events'[i][n].step, workflow, completed)
                   /\ events'[i][n].type = "workflow_completed" =>
                          IsReferenceChoice(NoStep, workflow, completed)]_vars

\* Steps b and c were both selectable after a; b, declared first, was started.
C11_Witness ==
    \E i \in Instances :
        /\ states[i].completedSteps = <<"a">>
        /\ states[i].currentStepId = "b"
        /\ Selectable(workflows[states[i].workflowId], <<"a">>) = {2, 3}

-----------------------------------------------------------------------------
(* C12: for the linear definition system -> human -> system, startWorkflow *)
(* leaves the instance paused on the human step with only the first step   *)
(* completed, and a subsequent provideHumanInput leaves it completed with  *)
(* the three ids in completedSteps in dependency order.                    *)

Linear ==
    << Step("a", "system", {}), Step("b", "human", {"a"}), Step("c", "system", {"b"}) >>

C12_LinearScenario ==
    \A i \in Instances :
        (startedAs[i] = Linear /\ i \notin redefined) =>
            /\ (returned[i] # None /\ ~Includes(states[i].completedSteps, "b")) =>
                   /\ returned[i] = "paused"
                   /\ states[i].status = "paused"
                   /\ i \in DOMAIN pendingHumanInputs
                   /\ pendingHumanInputs[i].stepId = "b"
                   /\ states[i].completedSteps = <<"a">>
            /\ (Includes(states[i].completedSteps, "b") /\ ~InFlight(i)) =>
                   /\ states[i].status = "completed"
                   /\ states[i].completedSteps = <<"a", "b", "c">>

\* startWorkflow resolved with the instance paused, the input was provided
\* afterwards, and the instance is completed.
C12_Witness ==
    \E i \in Instances :
        /\ startedAs[i] = Linear /\ i \notin redefined
        /\ returned[i] = "paused"
        /\ states[i].status = "completed"
        /\ states[i].completedSteps = <<"a", "b", "c">>

-----------------------------------------------------------------------------
(* C13: an accepted provideHumanInput stores the answer under the          *)
(* humanInput key of the pending step's stepData entry and keeps the other *)
(* keys of that entry; it leaves the entries of the other step ids and the *)
(* seeded keys as they were, and appends exactly the pending step's id to  *)
(* completedSteps.                                                         *)

C13_AnswerMergedIntoStepData ==
    [][\A i \in DOMAIN states, input \in Answers :
           (CanProvide(Engine, i) /\ ProvideHumanInput(i, input)) =>
               LET stepId == pendingHumanInputs[i].stepId
                   ref == states[i].stepData
               IN  /\ <<"humanInput", input>> \in heap'[ref][stepId]
                   /\ \A kv \in heap[ref][stepId] :
                          kv[1] # "humanInput" => kv \in heap'[ref][stepId]
                   /\ \A kv \in heap'[ref][stepId] :
                          kv \in heap[ref][stepId] \/ kv = <<"humanInput", input>>
                   /\ \A k \in DOMAIN heap[ref] \ {stepId} : heap'[ref][k] = heap[ref][k]
                   /\ \A r \in DOMAIN heap \ {ref} : heap'[r] = heap[r]
                   /\ states'[i].completedSteps = Append(states[i].completedSteps, stepId)
                   /\ states'[i].stepData = ref]_vars

\* The answer to step b sits beside the key seeded under b by initialData.
C13_Witness ==
    \E i \in Instances :
        /\ states[i].stepData = SeedRef
        /\ Includes(states[i].completedSteps, "b")
        /\ heap[SeedRef]["b"] = {<<"note", "prior">>, <<"humanInput", "yes">>}
        /\ heap[SeedRef]["requestData"] = SeedData["requestData"]
-----------------------------------------------------------------------------
(* C14: startWorkflow of a definition id that is not registered fails with *)
(* NotFound, creates no instance and emits no event.                       *)

C14_UnregisteredStartChangesNothing ==
    [][\A w \in WorkflowIds \cup {Unregistered}, data \in {Undefined, SeedRef} :
           (w \notin DOMAIN workflows /\ StartWorkflow(w, data)) =>
               /\ lastCall' = "NotFound"
               /\ DOMAIN states' = DOMAIN states
               /\ UNCHANGED <<states, pendingHumanInputs, heap, events, microtasks,
                              statusTrace, returned>>]_vars

\* Rejected while an instance of a registered definition is paused.
C14_Witness ==
    /\ lastCall = "NotFound"
    /\ \E i \in Instances : states[i].status = "paused"

-----------------------------------------------------------------------------
(* C15: getWorkflowState and getPendingHumanInput return the stored value, *)
(* or the absent value for an unknown instance id, and change nothing of   *)
(* the engine's state.                                                     *)

C15_LookupsChangeNothing ==
    [][\A i \in 1..(Cardinality(Instances) + 1) :
           /\ GetWorkflowState(i) =>
                  /\ looked'.value = Undefined <=> i \notin Instances
                  /\ i \in Instances => looked'.value = states[i]
                  /\ UNCHANGED <<workflows, states, pendingHumanInputs, heap, events,
                                 microtasks, statusTrace>>
           /\ GetPendingHumanInput(i) =>
                  /\ looked'.value = Undefined <=> i \notin DOMAIN pendingHumanInputs
                  /\ i \in DOMAIN pendingHumanInputs =>
                         looked'.value = pendingHumanInputs[i]
                  /\ UNCHANGED <<workflows, states, pendingHumanInputs, heap, events,
                                 microtasks, statusTrace>>]_vars

\* The pending input of a paused instance was looked up.
C15_Witness ==
    /\ looked.op = "getPendingHumanInput"
    /\ looked.value # Undefined
    /\ looked.id \in Instances
    /\ states[looked.id].status = "paused"
-----------------------------------------------------------------------------
(* C16: chat attempts the primary provider and then the constructed        *)
(* fallbacks in their configured order, and returns the response of the    *)
(* first provider in that order that succeeds, with its provider field     *)
(* naming it; no provider after it is called.                              *)

\* The first position of order whose provider succeeds, 0 when none does
FirstUp(order, up) ==
    IF \A n \in 1..Len(order) : order[n] \notin up THEN 0
    ELSE CHOOSE n \in 1..Len(order) :
             order[n] \in up /\ \A m \in 1..(n - 1) : order[m] \notin up

C16_FirstSuccessfulProviderAnswers ==
    llmCall.op = "chat" =>
        LET n == FirstUp(llmCall.toTry, llmCall.up)
        IN  n > 0 => /\ llmCall.outcome = "response"
                     /\ llmCall.provider = llmCall.toTry[n]
                     /\ llmCall.tried = SubSeq(llmCall.toTry, 1, n)

-----------------------------------------------------------------------------
(* C17: chat fails with AllProvidersFailed only when every constructed     *)
(* provider of the try order has been attempted and has thrown, the error  *)
(* being that of the last provider of the try order; when some provider of *)
(* the try order would succeed, chat returns a response.                   *)

C17_FailsOnlyWhenAllFailed ==
    llmCall.op = "chat" =>
        /\ llmCall.outcome = "AllProvidersFailed" =>
               /\ Range(llmCall.toTry) \subseteq Range(llmCall.tried)
               /\ Range(llmCall.toTry) \cap llmCall.up = {}
               /\ llmCall.provider = llmCall.toTry[Len(llmCall.toTry)]
        /\ Range(llmCall.toTry) \cap llmCall.up # {} => llmCall.outcome = "response"

-----------------------------------------------------------------------------
(* C18: within one chat call each provider is attempted at most once, even *)
(* when the primary provider also appears in the fallback list.            *)

C18_EachProviderTriedOnce ==
    llmCall.op = "chat" =>
        \A m, n \in 1..Len(llmCall.tried) :
            llmCall.tried[m] = llmCall.tried[n] => m = n

-----------------------------------------------------------------------------
(* C19: after initialize the constructed providers are among the types     *)
(* that are both configured and reported available by the registry;        *)
(* initialize fails with NoProvidersAvailable exactly when none was        *)
(* constructed, and succeeds otherwise, whatever was unavailable or failed *)
(* to be constructed.                                                      *)

\* The types the registry reports available
ReportedAvailable ==
    {type \in Range(factory.providers) :
        type \in DOMAIN factory.availabilityCache /\ factory.availabilityCache[type]}

C19_ConstructedAreConfiguredAndAvailable ==
    manager.phase # "none" =>
        /\ Range(manager.providers) \subseteq
               Range(manager.config.providers) \cap ReportedAvailable
        /\ manager.phase = "failed" <=> manager.providers = << >>
        /\ llmCall.op = "initialize" =>
               llmCall.outcome = IF manager.providers = << >>
                                 THEN "NoProvidersAvailable" ELSE "ok"

\* initialize succeeded with one provider, although one configured type is
\* reported unavailable and the adapter of another could not be constructed.
C19_Witness ==
    /\ llmCall.op = "initialize" /\ llmCall.outcome = "ok"
    /\ Len(manager.providers) = 1
    /\ \E type \in Range(manager.config.providers) : type \notin ReportedAvailable
    /\ \E type \in Range(manager.config.providers) \cap ReportedAvailable :
           type \notin Range(manager.providers)

-----------------------------------------------------------------------------
(* C20: when the configured primary provider was not constructed,          *)
(* initialize succeeds with the first constructed provider as primary, and *)
(* getAvailableProviders lists it; a configured primary that was           *)
(* constructed stays primary.                                              *)

C20_PrimarySubstituted ==
    (llmCall.op = "initialize" /\ manager.providers # << >>) =>
        /\ llmCall.outcome = "ok"
        /\ manager.phase = "ready"
        /\ manager.primaryProvider =
               IF manager.config.primaryProvider \in Range(manager.providers)
               THEN manager.config.primaryProvider
               ELSE manager.providers[1]
        /\ manager.primaryProvider \in Range(getAvailableProviders(manager))

\* The primary openai is not configured; gemini, constructed first, replaces it.
C20_Witness ==
    /\ llmCall.op = "initialize"
    /\ manager.config.primaryProvider = "openai"
    /\ manager.providers = <<"gemini", "anthropic">>
    /\ manager.primaryProvider = "gemini"
-----------------------------------------------------------------------------
(* C21: switchPrimaryProvider(type) fails with NotAvailable and leaves the *)
(* primary pointer unchanged when type was not constructed; otherwise it   *)
(* sets the primary to type and changes nothing else: the constructed      *)
(* providers, the fallback list and the registry stay as they were.        *)

C21_SwitchChangesOnlyPrimary ==
    [][llmCall'.op = "switchPrimaryProvider" =>
          /\ factory' = factory
          /\ IF llmCall'.provider \notin Range(manager.providers)
             THEN /\ llmCall'.outcome = "NotAvailable"
                  /\ manager' = manager
             ELSE /\ llmCall'.outcome = "ok"
                  /\ manager' = [manager EXCEPT !.primaryProvider = llmCall'.provider]]_vars

\* The primary was switched away from the constructed configured primary.
C21_Witness ==
    /\ llmCall.op = "switchPrimaryProvider" /\ llmCall.outcome = "ok"
    /\ manager.config.primaryProvider \in Range(manager.providers)
    /\ manager.primaryProvider = llmCall.provider
    /\ manager.primaryProvider # manager.config.primaryProvider
-----------------------------------------------------------------------------
(* C22: checkHealth never throws: it returns a mapping with exactly one    *)
(* boolean entry per constructed provider, false when that provider's      *)
(* probe request fails and true when it succeeds, and it changes neither   *)
(* the primary pointer, nor the fallback list, nor the constructed set.    *)

C22_CheckHealthReportsEachProvider ==
    [][llmCall'.op = "checkHealth" =>
          /\ llmCall'.outcome = "returned"
          /\ DOMAIN llmCall'.health = Range(manager.providers)
          /\ \A type \in Range(manager.providers) :
                 llmCall'.health[type] = (type \in llmCall'.up)
          /\ manager' = manager]_vars

\* A health report with a healthy and an unhealthy provider.
C22_Witness ==
    /\ llmCall.op = "checkHealth"
    /\ \E good, bad \in Range(manager.providers) :
           /\ llmCall.health[good]
           /\ ~llmCall.health[bad]
-----------------------------------------------------------------------------
(* C23: for each provider type the registry determines availability once:  *)
(* across checkProviderAvailability, getAvailableProvidersAsync and        *)
(* createProvider the adapter's static probe runs at most once, and every  *)
(* later answer for the type equals the first, cached answer.              *)

C23_AvailabilityDeterminedOnce ==
    /\ registryLog.again = {}
    /\ (llmCall.op = "createProvider"
            /\ llmCall.provider \in DOMAIN factory.availabilityCache) =>
           (llmCall.outcome = "adapter") = factory.availabilityCache[llmCall.provider]
    /\ (llmCall.op = "checkProviderAvailability") =>
           (llmCall.outcome = "true") = factory.availabilityCache[llmCall.provider]

-----------------------------------------------------------------------------
(* C24: after registerProvider(name, cls) with a usable class,             *)
(* getAvailableProvidersAsync includes name and createProvider(name, cfg)  *)
(* returns an instance of cls, whichever registry operations ran before or *)
(* run after the registration.                                             *)

C24_RegisteredProviderIsUsable ==
    /\ llmCall.op = "getAvailableProvidersAsync" =>
           registryLog.registered \subseteq Range(llmCall.available)
    /\ (llmCall.op = "createProvider" /\ llmCall.provider \in registryLog.registered) =>
           /\ llmCall.outcome = "adapter"
           /\ llmCall.cls = "custom"

-----------------------------------------------------------------------------
(* C25: createProvider(type, cfg) fails with ProviderUnavailable, and      *)
(* returns no adapter, whenever type is not registered or its availability *)
(* probe reports the SDK unusable; it returns an adapter only for a        *)
(* registered type whose probe reports available (a class without a probe  *)
(* counting as available).                                                 *)

C25_CreateProviderNeedsUsableType ==
    [][llmCall'.op = "createProvider" =>
          LET type == llmCall'.provider
              registered == type \in Range(factory'.providers)
              usable == hasProbe(factory', type) => type \in sdk
          IN  IF registered /\ usable
              THEN llmCall'.outcome = "adapter" /\ llmCall'.cls # None
              ELSE llmCall'.outcome = "ProviderUnavailable" /\ llmCall'.cls = None]_vars

\* createProvider refused a registered built-in type whose SDK is missing.
C25_Witness ==
    /\ llmCall.op = "createProvider"
    /\ llmCall.outcome = "ProviderUnavailable"
    /\ llmCall.provider \in Range(factory.providers)
    /\ llmCall.provider \notin sdk
-----------------------------------------------------------------------------
(* C26: instances are independent: a step of the engine made for one       *)
(* instance (by startWorkflow, by provideHumanInput or by one of their     *)
(* continuations) never changes the status, the completedSteps, the        *)
(* stepData or the pending input of another instance, also when two        *)
(* instances were started with the same initialData object.                *)

\* What the claim protects of instance i; stepData is read through the
\* reference the state holds.
InstanceView(i) ==
    [status |-> states[i].status,
     completedSteps |-> states[i].completedSteps,
     stepData |-> heap[states[i].stepData],
     pending |-> IF i \in DOMAIN pendingHumanInputs THEN pendingHumanInputs[i]
                 ELSE NoInput]

C26_InstancesIndependent ==
    [][/\ \A i, j \in DOMAIN states :
              i # j => \/ InstanceView(i)' = InstanceView(i)
                       \/ InstanceView(j)' = InstanceView(j)
       /\ DOMAIN states' # DOMAIN states =>
              \A i \in DOMAIN states : InstanceView(i)' = InstanceView(i)]_vars
-----------------------------------------------------------------------------
(* C28: with the default step behaviour an instance becomes paused only as *)
(* the outcome of executing a step of type human; whenever an instance is  *)
(* paused, its pending input's stepId is its currentStepId and that step   *)
(* is not in completedSteps; the execution of a system or agent step never *)
(* leaves the instance paused.                                             *)

\* The values assigned to the status of instance i during the step
NewStatuses(i) ==
    IF i \in DOMAIN statusTrace
    THEN Range(SubSeq(statusTrace'[i], Len(statusTrace[i]) + 1, Len(statusTrace'[i])))
    ELSE Range(statusTrace'[i])

\* The step whose execution the job at the head of the queue resumes for
\* instance i has type tag type
Executes(i, types) ==
    /\ microtasks # << >>
    /\ Head(microtasks).kind = "exec"
    /\ Head(microtasks).inst = i
    /\ Head(microtasks).step.type \in types

C28_PausedOnlyByHumanStep ==
    [][\A i \in DOMAIN states' :
          /\ "paused" \in NewStatuses(i) => Executes(i, {"human"})
          /\ states'[i].status = "paused" =>
                 /\ i \in DOMAIN pendingHumanInputs'
                 /\ pendingHumanInputs'[i].stepId = states'[i].currentStepId
                 /\ ~Includes(states'[i].completedSteps, states'[i].currentStepId)
          /\ Executes(i, {"system", "agent"}) =>
                 /\ "paused" \notin NewStatuses(i)
                 /\ states'[i].status # "paused"]_vars

\* An instance paused at its human step after a system step has completed.
C28_Witness ==
    \E i \in DOMAIN states :
        /\ states[i].status = "paused"
        /\ pendingHumanInputs[i].stepId = states[i].currentStepId
        /\ states[i].completedSteps # << >>
        /\ events[i][Len(events[i])].type = "human_input_required"
-----------------------------------------------------------------------------
(* C29: at most one continuation drives an instance at a time, under any   *)
(* interleaving of startWorkflow, provideHumanInput and calls made from    *)
(* inside event listeners: no step of an instance is started while another *)
(* started step of it has not reached its outcome (completed, paused or    *)
(* failed), at most one executeNextStep activation of an instance is       *)
(* waiting to resume its work, and while it waits nothing else changes the *)
(* instance's state.                                                       *)

\* In the events of one instance every step_started is followed at once by
\* the outcome of the same step, unless the step is still executing.
StartedStepsSettle(ev) ==
    \A n \in 1..Len(ev) :
        ev[n].type = "step_started" =>
            \/ n = Len(ev)
            \/ /\ ev[n + 1].type \in {"step_completed", "human_input_required",
                                      "workflow_failed"}
               /\ ev[n + 1].stepId = ev[n].stepId

\* The queued jobs in which an executeNextStep activation of instance i
\* resumes after `await this.executeStep`
Activations(queue, i) ==
    {n \in 1..Len(queue) : queue[n].kind = "exec" /\ queue[n].inst = i}

C29_OneContinuationPerInstance ==
    [][\A i \in DOMAIN states' :
          /\ StartedStepsSettle(events'[i])
          /\ Cardinality(Activations(microtasks', i)) <= 1
          /\ (i \in DOMAIN states /\ Activations(microtasks, i) # {}
                  /\ states'[i] # states[i]) =>
                 Activations(microtasks, i) = {1}]_vars

\* The gateway answered from inside the human_input_required handler: the
\* re-entrant provideHumanInput started the next step, whose activation is
\* the only one waiting.
C29_Witness ==
    \E i \in DOMAIN states :
        /\ hitl = "auto"
        /\ Activations(microtasks, i) # {}
        /\ \E n \in 1..Len(events[i]) : events[i][n].type = "human_input_required"
        /\ events[i][Len(events[i])].type = "step_started"
-----------------------------------------------------------------------------
(* C30: listener activity does not alter the engine's progression: for a   *)
(* fixed definition the sequence of statuses, the order of completedSteps  *)
(* and the sequence of emitted events of an instance are those of the      *)
(* run determined by the definition alone, whether no listener is          *)
(* attached, the answer arrives later from a caller, or the gateway feeds  *)
(* its answer back from inside the handler; in particular nothing is       *)
(* mutated after the emission of human_input_required on that path.        *)

IsPrefix(s, t) == Len(s) <= Len(t) /\ SubSeq(t, 1, Len(s)) = s

\* The run of a definition in which every requested input is answered: the
\* statuses assigned after pending, the completed steps and the events, as
\* the selection rule and the step behaviour alone determine them.
RECURSIVE ReferenceRun(_, _)
ReferenceRun(workflow, run) ==
    LET nextStep == findNextStep(workflow, [completedSteps |-> run.completed])
        result == executeStep(nextStep)
        started == [run EXCEPT !.statuses = Append(@, "running"),
                               !.events = Append(@, <<"step_started", nextStep.id>>)]
    IN  IF nextStep = NoStep
        THEN [run EXCEPT !.statuses = Append(@, "completed"),
                         !.events = Append(@, <<"workflow_completed", None>>)]
        ELSE IF result.threw \/ (result.requiresHuman = NoInput /\ ~result.success)
        THEN [started EXCEPT !.statuses = Append(@, "failed"),
                             !.events = Append(@, <<"workflow_failed", nextStep.id>>)]
        ELSE IF result.requiresHuman # NoInput
        THEN ReferenceRun(workflow,
                 [started EXCEPT
                     !.statuses = @ \o <<"paused", "running">>,
                     !.events = @ \o << <<"human_input_required", nextStep.id>>,
                                        <<"step_completed", nextStep.id>> >>,
                     !.completed = Append(@, nextStep.id)])
        ELSE ReferenceRun(workflow,
                 [started EXCEPT
                     !.events = Append(@, <<"step_completed", nextStep.id>>),
                     !.completed = Append(@, nextStep.id)])

Reference(workflow) ==
    ReferenceRun(workflow, [statuses |-> <<"pending">>, events |-> << >>,
                            completed |-> << >>])

\* The events of instance i by type and step
EventTrace(i) == [n \in 1..Len(events[i]) |-> <<events[i][n].type, events[i][n].stepId>>]

C30_ProgressionIndependentOfListeners ==
    \A i \in DOMAIN states :
        i \notin redefined =>
            LET ref == Reference(startedAs[i])
            IN  /\ IsPrefix(statusTrace[i], ref.statuses)
                /\ IsPrefix(EventTrace(i), ref.events)
                /\ IsPrefix(states[i].completedSteps, ref.completed)

\* An instance whose human step was answered by the gateway from inside the
\* handler, and which ran to the end of its definition.
C30_Witness ==
    \E i \in DOMAIN states :
        /\ hitl = "auto"
        /\ i \notin redefined
        /\ states[i].status = "completed"
        /\ \E n \in 1..Len(events[i]) : events[i][n].type = "human_input_required"
        /\ statusTrace[i] = Reference(startedAs[i]).statuses
-----------------------------------------------------------------------------
(* C27: with a gateway that answers every requestInput exactly once and    *)
(* fair scheduling of the pending continuations, every instance started    *)
(* through HITLFramework eventually reaches status completed or failed: it *)
(* remains neither paused nor running for ever.                            *)

Ended(i) == i \in DOMAIN states /\ states[i].status \in {"completed", "failed"}

C27_EveryInstanceEnds ==
    \A i \in 1..MaxLiveCalls : (i \in DOMAIN states) ~> Ended(i)

\* An instance that was paused, was answered later by the gateway and ran to
\* the end of its definition.
C27_Witness ==
    \E i \in DOMAIN states :
        /\ hitl = "later"
        /\ states[i].status = "completed"
        /\ \E n \in 1..Len(events[i]) : events[i][n].type = "human_input_required"
-----------------------------------------------------------------------------
-----------------------------------------------------------------------------
(* The engine with its events followed: definitions that pause once,      *)
(* pause twice, and fail, with and without a gateway.                      *)

EventDefinitions ==
    { << Step("a", "system", {}), Step("b", "human", {"a"}), Step("c", "system", {"b"}) >>,
      << Step("a", "human", {}), Step("c", "agent", {"a"}), Step("b", "human", {"c"}) >>,
      << Step("a", "system", {}), Step("b", "bogus", {"a"}), Step("c", "system", {}) >>,
      << Step("a", "agent", {}), StepNoConfig("b", "human", {"a"}), Step("c", "system", {}) >> }

NextEvents ==
    \/ \E w \in WorkflowIds, d \in EventDefinitions : RegisterWorkflow(w, d)
    \/ \E w \in WorkflowIds : StartWorkflow(w, Undefined)
    \/ \E i \in DOMAIN states, a \in Answers : ProvideHumanInput(i, a)
    \/ \E answer \in Answers : RunMicrotask(answer)

SpecEvents == Init /\ [][NextEvents]_vars

(* C32: in the events of one instance, every step_completed,               *)
(* human_input_required or workflow_failed event naming step s is preceded *)
(* by a step_started event for s; each step id receives step_started at    *)
(* most once and step_completed at most once; a finished instance has      *)
(* exactly one terminal event (workflow_completed or workflow_failed), and *)
(* no event of the instance follows its terminal event.                    *)

TerminalEvents == {"workflow_completed", "workflow_failed"}

\* The positions of the events of the given types naming step s
EventsNaming(ev, types, s) ==
    {n \in 1..Len(ev) : ev[n].type \in types /\ ev[n].stepId = s}

C32_EventOrdering ==
    \A i \in DOMAIN states :
        LET ev == events[i]
            terminal == {n \in 1..Len(ev) : ev[n].type \in TerminalEvents}
        IN  /\ \A n \in 1..Len(ev) :
                   ev[n].type \in {"step_completed", "human_input_required",
                                   "workflow_failed"} =>
                       \E m \in 1..(n - 1) :
                           ev[m].type = "step_started" /\ ev[m].stepId = ev[n].stepId
            /\ \A s \in StepIds :
                   /\ Cardinality(EventsNaming(ev, {"step_started"}, s)) <= 1
                   /\ Cardinality(EventsNaming(ev, {"step_completed"}, s)) <= 1
            /\ Cardinality(terminal) <= 1
            /\ terminal \subseteq {Len(ev)}
            /\ states[i].status \in {"completed", "failed"} <=> terminal # {}
\* An instance that ran through a system step, a human step and another
\* system step, and completed.
C32_Witness ==
    \E i \in DOMAIN states :
        /\ states[i].status = "completed"
        /\ Len(states[i].completedSteps) = 3
        /\ \E n \in 1..Len(events[i]) : events[i][n].type = "human_input_required"
        /\ events[i][Len(events[i])].type = "workflow_completed"

-----------------------------------------------------------------------------
(* The engine on definitions with other dependency graphs: cycles, steps  *)
(* beside or behind a cycle, steps declared after the steps that depend   *)
(* on them.                                                               *)

GraphDefinitions ==
    { << Step("a", "system", {"b"}), Step("b", "system", {"a"}) >>,
      << Step("a", "system", {"a"}) >>,
      << Step("a", "system", {}), Step("b", "system", {"c"}), Step("c", "system", {"b"}) >>,
      << Step("a", "system", {"b"}), Step("b", "human", {"a"}), Step("c", "agent", {"a"}) >>,
      << Step("c", "system", {"a", "b"}), Step("b", "human", {"a"}), Step("a", "agent", {}) >>,
      << Step("b", "system", {"a"}), Step("a", "system", {}) >> }

NextGraphs ==
    \/ \E w \in WorkflowIds, d \in GraphDefinitions : RegisterWorkflow(w, d)
    \/ \E w \in WorkflowIds : StartWorkflow(w, Undefined)
    \/ \E i \in DOMAIN states, a \in Answers : ProvideHumanInput(i, a)
    \/ \E answer \in Answers : RunMicrotask(answer)

SpecGraphs == Init /\ [][NextGraphs]_vars

\* The step ids of a definition, and the steps that can never become
\* eligible: those on a dependency cycle or behind one (the largest set of
\* steps each of which depends on a step of the set or on an unknown id).
StepIdsOf(definition) == {definition[n].id : n \in 1..Len(definition)}
UniqueStepIds(definition) ==
    \A m, n \in 1..Len(definition) : definition[m].id = definition[n].id => m = n
DependenciesKnown(definition) ==
    \A n \in 1..Len(definition) : definition[n].dependencies \subseteq StepIdsOf(definition)
RECURSIVE Runnable(_, _)
Runnable(definition, done) ==
    LET more == {definition[n].id : n \in {k \in 1..Len(definition) :
                                              definition[k].dependencies \subseteq done}}
    IN  IF more \subseteq done THEN done ELSE Runnable(definition, done \cup more)
HasCycle(definition) ==
    /\ DependenciesKnown(definition)
    /\ Runnable(definition, {}) # StepIdsOf(definition)
AllBehindCycle(definition) == HasCycle(definition) /\ Runnable(definition, {}) = {}

(* C34: an instance started from a registered definition whose dependency *)
(* graph leaves no step outside or before a cycle (every step lies on a    *)
(* cycle or depends on one) is completed when startWorkflow's synchronous  *)
(* part ends, with completedSteps empty, no step_started event, exactly    *)
(* the event workflow_completed and no error, and stays so.               *)
C34_CycleCompletesEmpty ==
    \A i \in DOMAIN states :
        AllBehindCycle(startedAs[i]) =>
            /\ states[i].status = "completed"
            /\ states[i].completedSteps = << >>
            /\ statusTrace[i] = <<"pending", "completed">>
            /\ Len(events[i]) = 1
            /\ events[i][1].type = "workflow_completed"
            /\ events[i][1].error = NoError
            /\ findNextStep(startedAs[i], states[i]) = NoStep

\* The claim as stated: any definition whose dependency graph contains a cycle.
C34_AnyCycleCompletesEmpty ==
    \A i \in DOMAIN states :
        (HasCycle(startedAs[i]) /\ i \notin redefined /\ microtasks = << >>) =>
            /\ states[i].status = "completed"
            /\ states[i].completedSteps = << >>
            /\ \A n \in 1..Len(events[i]) : events[i][n].type # "step_started"

C34_Witness ==
    \E i, j \in DOMAIN states :
        /\ i # j
        /\ startedAs[i] = << Step("a", "system", {"a"}) >>
        /\ Len(startedAs[j]) = 3 /\ AllBehindCycle(startedAs[j])
        /\ states[i].status = "completed" /\ states[j].status = "completed"

(* C35: when the definition registered under an instance's workflow id    *)
(* has unique step ids and dependencies that all name steps of the         *)
(* definition and form no cycle, the instance becomes completed, and       *)
(* workflow_completed is emitted, only with every step id of that          *)
(* definition in completedSteps; a completed instance whose definition was *)
(* never replaced holds every step id of its definition.                   *)
WellFormed(definition) ==
    /\ UniqueStepIds(definition)
    /\ DependenciesKnown(definition)
    /\ Runnable(definition, {}) = StepIdsOf(definition)

C35_CompletedMeansAllSteps ==
    [][\A i \in DOMAIN states' :
           LET registered == workflows'[states'[i].workflowId]
               completes == /\ states'[i].status = "completed"
                            /\ i \in DOMAIN states => states[i].status # "completed"
               announced == \E n \in NewEvents(i) : events'[i][n].type = "workflow_completed"
           IN  /\ ((completes \/ announced) /\ WellFormed(registered)) =>
                      /\ StepIdsOf(registered) \subseteq Range(states'[i].completedSteps)
                      /\ states'[i].status = "completed"
                      /\ completes /\ announced
               /\ (/\ states'[i].status = "completed"
                   /\ i \notin redefined'
                   /\ WellFormed(startedAs'[i])) =>
                      StepIdsOf(startedAs'[i]) \subseteq Range(states'[i].completedSteps)]_vars

\* An instance of the definition declared in reverse order of its
\* dependencies (c after a and b, b after a) that has completed.
C35_Witness ==
    \E i \in DOMAIN states :
        /\ Len(startedAs[i]) = 3 /\ WellFormed(startedAs[i])
        /\ startedAs[i][1].id = "c"
        /\ i \notin redefined
        /\ states[i].status = "completed"
        /\ states[i].completedSteps = <<"a", "b", "c">>

\* The claim as stated, for the definition the instance was started from.
C35_CompletedMeansAllStepsOfItsDefinition ==
    \A i \in DOMAIN states :
        (states[i].status = "completed" /\ WellFormed(startedAs[i])) =>
            StepIdsOf(startedAs[i]) \subseteq Range(states[i].completedSteps)

(* C36: once LLMManager.initialize has succeeded, whatever chat,          *)
(* checkHealth and switchPrimaryProvider calls follow, succeeding or         *)
(* failing: the primary provider is one of the constructed providers, the    *)
(* constructed set is not empty and never changes, and chat (through the     *)
(* primary, through a fallback, or failing), checkHealth and a rejected      *)
(* switchPrimaryProvider leave the primary provider as it was.               *)
C36_PrimaryAmongConstructed ==
    [][/\ manager'.phase = "ready" =>
              /\ manager'.providers # << >>
              /\ manager'.primaryProvider \in Range(manager'.providers)
       /\ manager.phase = "ready" =>
              /\ manager'.phase = "ready"
              /\ manager'.providers = manager.providers
              /\ manager'.fallbackProviders = manager.fallbackProviders
              /\ (\/ llmCall'.op \in {"chat", "checkHealth"}
                  \/ llmCall'.op = "switchPrimaryProvider" /\ llmCall'.outcome # "ok") =>
                     manager'.primaryProvider = manager.primaryProvider]_vars

\* With a primary provider other than the configured one (switched, or
\* substituted by initialize), a chat whose primary failed has been answered
\* by a fallback.
C36_Witness ==
    /\ manager.phase = "ready"
    /\ manager.primaryProvider # manager.config.primaryProvider
    /\ llmCall.op = "chat" /\ llmCall.outcome = "response"
    /\ llmCall.provider # manager.primaryProvider
    /\ Len(llmCall.tried) >= 2

-----------------------------------------------------------------------------
(* GeminiProvider.chat: the conversion of the role-tagged messages to the  *)
(* history given to startChat and the text given to sendMessage.           *)

Roles == {"system", "user", "assistant"}
\* Message contents; "" is the empty string, which JavaScript takes as false.
Contents == {"", "p", "q"}
LLMMessage(role, content) == [role |-> role, content |-> content]
RECURSIVE MessageLists(_)
MessageLists(len) ==
    IF len = 0 THEN {<< >>}
    ELSE MessageLists(len - 1) \cup
         {Append(l, LLMMessage(r, c)) :
             l \in {m \in MessageLists(len - 1) : Len(m) = len - 1}, r \in Roles, c \in Contents}

\* A part of the conversation handed to the backend.  Its text is written
\* as the list of the messages (their positions in the list) whose contents
\* make it up, in order; the string is the concatenation of those contents.
Part(role, text) == [role |-> role, text |-> text]

\* JavaScript takes the empty string as false.
Falsy(messages, text) == \A k \in 1..Len(text) : messages[text[k]].content = ""

\* The loop over messages, from message n on.
RECURSIVE convertMessages(_, _, _, _)
convertMessages(messages, n, history, lastMessage) ==
    IF n > Len(messages) THEN [history |-> history, lastMessage |-> lastMessage]
    ELSE IF messages[n].role = "system"
    THEN convertMessages(messages, n + 1, history, lastMessage)
    ELSE IF messages[n].role = "user"
    THEN convertMessages(messages, n + 1, history, <<n>>)
    ELSE convertMessages(messages, n + 1,
                         (IF ~Falsy(messages, lastMessage)
                          THEN Append(history, Part("user", lastMessage))
                          ELSE history) \o << Part("model", <<n>>) >>,
                         << >>)

\* chat(messages): history and the argument of sendMessage; reading
\* messages[messages.length - 1].content of an empty list throws inside the
\* try block.
geminiChat(messages) ==
    LET converted == convertMessages(messages, 1, << >>, << >>)
    IN  IF ~Falsy(messages, converted.lastMessage)
        THEN [phase |-> "sent", messages |-> messages, history |-> converted.history,
              sent |-> converted.lastMessage]
        ELSE IF messages = << >>
        THEN [phase |-> "GeminiAPIError", messages |-> messages,
              history |-> converted.history, sent |-> << >>]
        ELSE [phase |-> "sent", messages |-> messages, history |-> converted.history,
              sent |-> <<Len(messages)>>]

GeminiChat ==
    /\ gemini.phase = "called"
    /\ gemini' = geminiChat(gemini.messages)
    /\ UNCHANGED <<engineVars, llmVars, inits, console, listener>>

InitGemini ==
    /\ InitEngine({"none"})
    /\ gemini \in {[NoGeminiChat EXCEPT !.phase = "called", !.messages = m] :
                      m \in MessageLists(MaxMessages)}
    /\ inits = NoInits
    /\ console = NewConsoleHITL
    /\ listener = {}

NextGemini == GeminiChat

SpecGemini == InitGemini /\ [][NextGemini]_vars

\* What the backend receives, in order: the history, then the sent text as
\* the user's turn; and the same as the list of the pieces of text, each with
\* the role of its part.
Conversation == gemini.history \o << Part("user", gemini.sent) >>
RECURSIVE Pieces(_)
Pieces(parts) ==
    IF parts = << >> THEN << >>
    ELSE [k \in 1..Len(Head(parts).text) |->
             [role |-> Head(parts).role, of |-> Head(parts).text[k]]] \o Pieces(Tail(parts))

(* C38: every system message of a list is folded into the conversation as *)
(* context preceding the first user turn: its content is part of what the  *)
(* backend receives, and stands before the content of every user message.  *)
C38_SystemMessagesFolded ==
    gemini.phase = "sent" =>
        LET received == Pieces(Conversation)
        IN  \A n \in 1..Len(gemini.messages) :
                gemini.messages[n].role = "system" =>
                    \E k \in 1..Len(received) :
                        /\ received[k].of = n
                        /\ \A j \in 1..(k - 1) :
                               gemini.messages[received[j].of].role # "user"

(* C39: the user and assistant messages of the list, each once, in their  *)
(* order and with their roles (assistant as model), make up the history    *)
(* followed by the sent message.                                           *)
Turns(messages) ==
    LET kept == SelectSeq([n \in 1..Len(messages) |-> n],
                          LAMBDA n : messages[n].role # "system")
    IN  [k \in 1..Len(kept) |->
            [role |-> IF messages[kept[k]].role = "assistant" THEN "model" ELSE "user",
             of |-> kept[k]]]

C39_NoMessageLost ==
    gemini.phase = "sent" =>
        SelectSeq(Pieces(Conversation),
                  LAMBDA piece : gemini.messages[piece.of].role # "system")
            = Turns(gemini.messages)

-----------------------------------------------------------------------------
(* The registry's lazy initialization followed from await to await:       *)
(* checkProviderAvailability calls started while others are in flight,    *)
(* and registerProvider called in between.                                *)

\* initializeProviders up to its first await: it returns at once when the
\* registry is initialized, otherwise it calls registerProviderSafely for
\* 'openai' and waits for the import of the adapter's module.
enterInitializeProviders(F, I, type) ==
    IF F.initialized
    THEN [I EXCEPT !.ops = Append(@, [at |-> "check", type |-> type])]
    ELSE [I EXCEPT !.ops = Append(@, [at |-> BuiltInProviders[1], type |-> type]),
                   !.runs = @ + 1]

\* registerProviderSafely after its await: this.providers.set(name, ProviderClass)
registerProviderSafely(F, name) ==
    [F EXCEPT !.providers = KeysSet(@, name), !.custom = @ \ {name}]

\* A caller starts checkProviderAvailability(type).
StartCheck(type) ==
    /\ Len(inits.ops) < MaxOperations
    /\ inits' = enterInitializeProviders(factory, inits, type)
    /\ llmCall' = NoCall
    /\ UNCHANGED <<sdk, factory, manager, registryLog, engineVars, gemini, console, listener>>

\* The import awaited by operation n resolves: the class is set, and
\* initializeProviders goes on to the next registerProviderSafely, or to the
\* await of the last one.
ImportResolves(n) ==
    /\ n \in 1..Len(inits.ops)
    /\ inits.ops[n].at \in Range(BuiltInProviders)
    /\ LET name == inits.ops[n].at
           k == CHOOSE j \in 1..Len(BuiltInProviders) : BuiltInProviders[j] = name
       IN  /\ factory' = registerProviderSafely(factory, name)
           /\ inits' = [inits EXCEPT !.ops[n].at =
                            IF k < Len(BuiltInProviders) THEN BuiltInProviders[k + 1]
                            ELSE "finish"]
    /\ llmCall' = NoCall
    /\ UNCHANGED <<sdk, manager, registryLog, engineVars, gemini, console, listener>>

\* initializeProviders of operation n resumes after the last
\* registerProviderSafely: this.initialized = true.
FinishInitialize(n) ==
    /\ n \in 1..Len(inits.ops)
    /\ inits.ops[n].at = "finish"
    /\ factory' = [factory EXCEPT !.initialized = TRUE]
    /\ inits' = [inits EXCEPT !.ops[n].at = "check"]
    /\ llmCall' = NoCall
    /\ UNCHANGED <<sdk, manager, registryLog, engineVars, gemini, console, listener>>

\* checkProviderAvailability of operation n after `await initializeProviders()`
ResumeCheck(n) ==
    /\ n \in 1..Len(inits.ops)
    /\ inits.ops[n].at = "check"
    /\ LET type == inits.ops[n].type
           checked == checkProviderAvailability(factory, type)
       IN  /\ factory' = checked.factory
           /\ llmCall' = [NoCall EXCEPT !.op = "checkProviderAvailability",
                                        !.outcome = IF checked.value THEN "true" ELSE "false",
                                        !.provider = type]
           /\ registryLog' = logProbes(registryLog, probedByCheck(factory, type))
    /\ inits' = [inits EXCEPT !.ops[n].at = "done"]
    /\ UNCHANGED <<sdk, manager, engineVars, gemini, console, listener>>

NextLazyInit ==
    \/ \E type \in RegisteredNames : StartCheck(type)
    \/ \E n \in 1..MaxOperations : ImportResolves(n)
    \/ \E n \in 1..MaxOperations : FinishInitialize(n)
    \/ \E n \in 1..MaxOperations : ResumeCheck(n)
    \/ \E name \in RegisteredNames : RegisterProvider(name)

SpecLazyInit == InitLLM /\ [][NextLazyInit]_vars

(* C37: however registry operations and registerProvider calls interleave, *)
(* the registration of the built-in providers runs at most once, a class    *)
(* given to registerProvider stays the class registered under its name, and *)
(* once the registry is initialized a checkProviderAvailability changes     *)
(* neither the provider map nor the availability cache.                     *)
C37_LazyInitRunsOnce ==
    [][/\ inits'.runs <= 1
       /\ registryLog'.registered \subseteq factory'.custom
       /\ (factory.initialized /\ llmCall'.op = "checkProviderAvailability") =>
              /\ factory'.providers = factory.providers
              /\ factory'.availabilityCache = factory.availabilityCache]_vars

-----------------------------------------------------------------------------
(* ConsoleHITL: the console gateway, whose constructor begins the import  *)
(* of readline and whose requestInput may run before or after the import  *)
(* has resolved (runExample constructs the gateway and starts an instance *)
(* at once).                                                              *)

ConsoleAnswers == {"yes", "no"}
ConsoleInstances == {1, 2}

\* import('readline').then(rl => { this.readline = rl })
ReadlineLoaded ==
    /\ ~console.readline
    /\ console' = [console EXCEPT !.readline = TRUE]
    /\ UNCHANGED <<engineVars, llmVars, gemini, inits, listener>>

\* requestInput(workflowId, input): the prompt is printed; the question is
\* asked only if this.readline is set.  Requests are numbered in call order.
RequestInput(workflowId) ==
    /\ Len(console.requests) < MaxRequests
    /\ LET n == Len(console.requests) + 1
       IN  console' = [console EXCEPT !.requests = Append(@, workflowId),
                                      !.prompts = Append(@, workflowId),
                                      !.questions = IF console.readline
                                                    THEN @ \cup {n} ELSE @]
    /\ UNCHANGED <<engineVars, llmVars, gemini, inits, listener>>

\* The events emitted by the question callbacks of the requests in asked, in
\* the order the interfaces were created.
RECURSIVE questionCallbacks(_, _, _)
questionCallbacks(C, asked, answer) ==
    IF asked = {} THEN C
    ELSE LET n == CHOOSE k \in asked : \A j \in asked : k <= j
         IN  questionCallbacks(
                 [C EXCEPT !.questions = @ \ {n},
                           !.human_input = Append(@, [request |-> n,
                                                      workflowId |-> C.requests[n],
                                                      answer |-> answer])],
                 asked \ {n}, answer)

\* The user types a line.  Every open question has its own readline
\* interface on process.stdin; which of them receive the line is left open
\* (at least one does).  Each callback closes its interface and emits
\* human_input(workflowId, answer).
UserAnswers(asked, answer) ==
    /\ asked # {}
    /\ asked \subseteq console.questions
    /\ console' = questionCallbacks(console, asked, answer)
    /\ UNCHANGED <<engineVars, llmVars, gemini, inits, listener>>

NextConsole ==
    \/ ReadlineLoaded
    \/ \E workflowId \in ConsoleInstances : RequestInput(workflowId)
    \/ \E asked \in SUBSET (1..MaxRequests), answer \in ConsoleAnswers :
           UserAnswers(asked, answer)

SpecConsole == InitLLM /\ [][NextConsole]_vars

\* The human_input events emitted for request n
AnswersTo(n) == {k \in 1..Len(console.human_input) : console.human_input[k].request = n}

(* C40: whenever requestInput is called relative to the loading of        *)
(* readline, the request is prompted and either still waits for the user's *)
(* answer with its question asked, or has been answered by exactly one     *)
(* human_input event carrying its instance id: no request is dropped, none *)
(* is answered twice.                                                      *)
C40_EveryRequestAnswered ==
    \A n \in 1..Len(console.requests) :
        /\ Len(console.prompts) >= n /\ console.prompts[n] = console.requests[n]
        /\ Cardinality(AnswersTo(n)) <= 1
        /\ \A k \in AnswersTo(n) : console.human_input[k].workflowId = console.requests[n]
        /\ (n \in console.questions) # (AnswersTo(n) # {})

-----------------------------------------------------------------------------
(* HITLFramework.setupEventHandlers: the gateway calls made for the events *)
(* the engine emits.                                                       *)

\* emitEvent: this.emit('workflow_event', event); this.emit(type, event)
EmitChannels(event) == <<"workflow_event", event.type>>

GatewayCall(method, event) ==
    [method |-> method, workflowId |-> event.workflowId,
     input |-> IF method = "requestInput" THEN [stepId |-> event.stepId] ELSE NoInput,
     error |-> IF method = "notifyWorkflowError" THEN event.error ELSE NoError]

GatewayMethod(type) ==
    IF type = "human_input_required" THEN "requestInput"
    ELSE IF type = "workflow_completed" THEN "notifyWorkflowComplete"
    ELSE "notifyWorkflowError"

setupEventHandlersOnEveryChannel(channel, event) ==
    IF hitl = "none" THEN << >>
    ELSE IF event.type \in {"human_input_required", "workflow_completed", "workflow_failed"}
    THEN << GatewayCall(GatewayMethod(event.type), event) >>
    ELSE << >>

\* The handlers registered by setupEventHandlers, as the gateway calls they
\* make when event is emitted on channel; data.humanInput is the pending
\* input of the step the event names.
setupEventHandlers(channel, event) ==
    IF hitl = "none" THEN << >>
    ELSE IF channel \in {"human_input_required", "workflow_completed", "workflow_failed"}
    THEN << GatewayCall(GatewayMethod(channel), event) >>
    ELSE << >>

\* The gateway calls made for the events of a list, in order
RECURSIVE gatewayCalls(_)
gatewayCalls(emitted) ==
    IF emitted = << >> THEN << >>
    ELSE setupEventHandlers(EmitChannels(Head(emitted))[1], Head(emitted))
         \o setupEventHandlers(EmitChannels(Head(emitted))[2], Head(emitted))
         \o gatewayCalls(Tail(emitted))

CallsOf(i, method) ==
    SelectSeq(gatewayCalls(events[i]), LAMBDA call : call.method = method)

(* C33: with a gateway, requestInput has been called once for each time   *)
(* the instance became paused, with the instance's id and, while it is     *)
(* paused, its pending input; notifyWorkflowComplete once if it completed, *)
(* notifyWorkflowError once if it failed, and not otherwise; every call    *)
(* made for the events of an instance carries that instance's id.  Without *)
(* a gateway nothing is called.                                            *)
C33_GatewayNotifiedOnce ==
    \A i \in DOMAIN states :
        IF hitl = "none" THEN gatewayCalls(events[i]) = << >>
        ELSE /\ Len(CallsOf(i, "requestInput")) = Cardinality(Positions(statusTrace[i], "paused"))
             /\ Len(CallsOf(i, "notifyWorkflowComplete")) =
                    IF states[i].status = "completed" THEN 1 ELSE 0
             /\ Len(CallsOf(i, "notifyWorkflowError")) =
                    IF states[i].status = "failed" THEN 1 ELSE 0
             /\ \A k \in 1..Len(gatewayCalls(events[i])) :
                    gatewayCalls(events[i])[k].workflowId = i
             /\ i \in DOMAIN pendingHumanInputs =>
                    /\ CallsOf(i, "requestInput") # << >>
                    /\ CallsOf(i, "requestInput")[Len(CallsOf(i, "requestInput"))].input
                           = pendingHumanInputs[i]

\* An instance that paused twice and completed, and one that failed.
C33_Witness ==
    /\ hitl # "none"
    /\ \E i, j \in DOMAIN states :
           /\ Len(CallsOf(i, "requestInput")) = 2
           /\ Len(CallsOf(i, "notifyWorkflowComplete")) = 1
           /\ Len(CallsOf(j, "notifyWorkflowError")) = 1

-----------------------------------------------------------------------------
(* The engine with a listener, added with on(), that throws on one event  *)
(* type.                                                                   *)

EventTypes == {"step_started", "step_completed", "human_input_required",
               "workflow_completed", "workflow_failed"}

ThrowDefinitions ==
    { << Step("a", "system", {}), Step("b", "human", {"a"}), Step("c", "system", {"b"}) >>,
      << Step("a", "system", {}), Step("b", "bogus", {"a"}), Step("c", "system", {}) >> }

InitThrow ==
    /\ InitEngine({"none", "auto"})
    /\ gemini = NoGeminiChat /\ inits = NoInits /\ console = NewConsoleHITL
    /\ listener \in {{type} : type \in EventTypes}

NextThrow ==
    \/ \E w \in WorkflowIds, d \in ThrowDefinitions : RegisterWorkflow(w, d)
    \/ \E w \in WorkflowIds : StartWorkflow(w, Undefined)
    \/ \E i \in DOMAIN states, a \in Answers : ProvideHumanInput(i, a)
    \/ \E answer \in Answers : RunMicrotask(answer)

SpecThrow == InitThrow /\ [][NextThrow]_vars

(* C31: an exception thrown by a listener during emission leaves the      *)
(* instance as it was when the event was emitted: a completed instance     *)
(* stays completed, an instance with a pending input is paused, a step     *)
(* added to completedSteps stays the last one until the next step is       *)
(* started, and no workflow_failed event reports a listener's exception.   *)
C31_ListenerExceptionsLeaveState ==
    [][\A i \in DOMAIN states' :
           /\ (i \in DOMAIN states /\ states[i].status = "completed") =>
                  states'[i].status = "completed"
           /\ i \in DOMAIN pendingHumanInputs' => states'[i].status = "paused"
           /\ \A n \in 1..Len(events'[i]) :
                  events'[i][n].type = "workflow_failed" =>
                      events'[i][n].error # ListenerError]_vars

====
